---- MODULE Spec2Model ----
(***************************************************************************)
(* YouTubeService.searchVideos (lib/youtube-service.ts): the date-chunked, *)
(* quota-governed search-and-enrich fetcher, run against a scripted        *)
(* provider that may answer any request with an error.                     *)
(*                                                                         *)
(* Dates are whole days (integers): plus({days: n}) adds n and            *)
(* minus({years: n}) subtracts n * DaysPerYear.  An optional value is a    *)
(* sequence of length 0 (absent: undefined / null) or 1 (present).  The    *)
(* page token of a window is the number of the page it continues with.    *)
(***************************************************************************)
EXTENDS Integers, Sequences, FiniteSets, TLC

VARIABLES
    options,          \* the SearchOptions passed to searchVideos
    provider,         \* the provider's script: window number -> pages
    pc,               \* position of the one logical task
    quotaExceeded,    \* YouTubeService.quotaExceeded
    startDateTime,    \* searchVideos locals
    endDateTime,
    currentStartDate,
    chunkEndDate,
    allVideos,
    resultsFetched,
    chunkMax,         \* fetchVideosByDateRange: parameter maxResults
    chunkVideos,      \* fetchVideosByDateRange: local allVideos
    chunkFetched,     \* fetchVideosByDateRange: local resultsFetched
    nextPageToken,    \* fetchVideosByDateRange: local nextPageToken
    inFlight,         \* the provider request awaiting its response, if any
    result,           \* what searchVideos returned
    \* history variables (not program state)
    windows,          \* the windows passed to fetchVideosByDateRange so far
    nRequests,        \* provider requests issued
    nQuota,           \* QuotaExceeded responses received
    nOther,           \* other error responses received
    lastReq,          \* the request of the most recent response
    lastError,        \* the error of the most recent response, if it was one
    firstOutcome,     \* outcome of the first provider request of the search
    keptAtFailure,    \* ids collected when a non-quota error was received
    failedWindows,    \* windows whose pagination a non-quota error ended
    stoppedByCap,     \* the window loop was left by the result-cap break
    \* wall clock, in days
    clock,            \* the current day, DateTime.now()
    resetTime,        \* fetchVideosByDateRange: local resetTime of the last wait
    tripDay,          \* history: the day of the last QuotaExceeded response
    ticks,            \* history: midnights passed during the call
    \* getVideoDetails
    lkPc,             \* position of a getVideoDetails call
    lkId,             \* its argument videoId
    lkRequests,       \* history: the provider requests it issued, by kind
    lkResponse,       \* history: the provider's answer
    lkResult,         \* what it returned
    \* interleaved searchVideos calls on one service instance
    calls,            \* caller -> position, window, page token, suspension owed
    \* TranscriptService.fetchTranscript and lib/youtube.ts getTranscript
    trPc,             \* position of a getTranscript call
    trSource,         \* the transcript library's answer per language
    trAttempts,       \* history: the languages requested, in order
    trResult,         \* what getTranscript returned
    \* the batch loops of transcript-fetcher and llm-analyzer
    batchKind,        \* which of the two loops runs
    batchInput,       \* the videos of the batch, each with its item's outcome
    batchPos,         \* number of videos the loop has gone through
    outputData,       \* the loop's outputData
    \* analyzeTranscript
    anPc,             \* position of an analyzeTranscript call
    content,          \* the model's response
    analysisResult,   \* what analyzeTranscript returned
    \* run-video-pipeline.sh
    shPc,             \* position of the script; a running stage is the last logged
    shArgs,           \* its arguments and what check_search_term found
    stageLog,         \* history: the stages started, each with its exit status
    exitCode,         \* the script's exit status once it has ended
    \* pages/api/search.ts handler
    apiPc,            \* position of the handler
    apiReq,           \* the request: method and body
    apiStore,         \* the store: its SearchConfig names and failing queries
    apiQueries,       \* history: the awaits of the request, and "rejected"
                      \* after the one that failed
    apiResponses      \* history: the responses sent for the request

vars == << options, provider, pc, quotaExceeded, startDateTime, endDateTime,
           currentStartDate, chunkEndDate, allVideos, resultsFetched, chunkMax,
           chunkVideos, chunkFetched, nextPageToken, inFlight, result, windows,
           nRequests, nQuota, nOther, lastReq, lastError, firstOutcome,
           keptAtFailure, failedWindows, stoppedByCap,
           clock, resetTime, tripDay, ticks,
           lkPc, lkId, lkRequests, lkResponse, lkResult,
           calls, trPc, trSource, trAttempts, trResult,
           batchKind, batchInput, batchPos, outputData,
           anPc, content, analysisResult,
           shPc, shArgs, stageLog, exitCode,
           apiPc, apiReq, apiStore, apiQueries, apiResponses >>

(***************************************************************************)
(* Bounds of the model.                                                    *)
(***************************************************************************)
MaxQuotaErrors == 1
MaxOtherErrors == 1
MaxResultsOpt == 3
MaxTicks == 1
MaxDurationLen == 5
MaxSegments == 2
MaxBatch == 3
NowDay == 400
DaysPerYear == 365

(***************************************************************************)
(* Program constants.                                                      *)
(***************************************************************************)
dateChunkIntervalDays == 180
DefaultYearsBack == 5

None == << >>
Some(x) == << x >>
Get(o) == o[1]

(***************************************************************************)
(* The provider.  A search item carries a video id or none; the detail     *)
(* response lists detail records by id (possibly fewer, in any order).     *)
(***************************************************************************)
NoId == "undefined"
Ids == {"A", "B", "C", "D"}

pAB == [items |-> <<"A", "B">>, details |-> <<"A", "B">>]
pBC == [items |-> <<"B", "C">>, details |-> <<"C", "B">>]
pBCD == [items |-> <<"B", "C", "D">>, details |-> <<"C", "B", "D">>]
pCD == [items |-> <<"C", NoId, "D">>, details |-> <<"C">>]
pGone == [items |-> <<"D">>, details |-> << >>]
pNoIds == [items |-> <<NoId>>, details |-> << >>]
pEmpty == [items |-> << >>, details |-> << >>]

ProviderScripts ==
    { << <<pAB, pBCD>>, <<pCD>> >>,
      << <<pAB, pEmpty, pBC>>, <<pAB>> >>,
      << <<pGone, pCD>>, <<pNoIds, pAB>>, <<pBC>> >>,
      << <<pBC>>, <<pBC, pAB, pCD>>, <<pAB>> >> }

\* The pages of window number w: windows past the script hold nothing.
WindowPages(script, w) == IF w <= Len(script) THEN script[w] ELSE <<pEmpty>>

\* A page token is the number of the page it continues with.
PageNumber(token) == IF token = None THEN 1 ELSE Get(token)

PageAt(script, w, token) == WindowPages(script, w)[PageNumber(token)]

\* response.data.nextPageToken of that page
ContinuationOf(script, w, token) ==
    IF PageNumber(token) < Len(WindowPages(script, w))
    THEN Some(PageNumber(token) + 1) ELSE None

Quota403 == [response |-> TRUE, status |-> 403, reason |-> "quotaExceeded"]
Forbidden403 == [response |-> TRUE, status |-> 403, reason |-> "forbidden"]
BadRequest400 == [response |-> TRUE, status |-> 400, reason |-> "badRequest"]
Backend500 == [response |-> TRUE, status |-> 500, reason |-> "backendError"]
NetworkDown == [response |-> FALSE, status |-> 0, reason |-> ""]

Errors == {Quota403, Forbidden403, BadRequest400, Backend500, NetworkDown}
PermanentErrors == {Forbidden403, BadRequest400}

\* variant: every 403 response counts as quota exhaustion
IsQuotaErrorAny403(err) == err.response /\ err.status = 403

IsQuotaError(err) ==
    err.response /\ err.status = 403 /\ err.reason = "quotaExceeded"

(***************************************************************************)
(* Pure helpers of the service.                                            *)
(***************************************************************************)
\* videos.map(item => item.id?.videoId).filter(id => id !== undefined)
VideoIds(items) == SelectSeq(items, LAMBDA x : x # NoId)

\* variant: the records are built in the reverse of the provider's order
RECURSIVE EnrichReversed(_, _)
EnrichReversed(details, w) ==
    IF details = << >> THEN << >>
    ELSE IF Head(details) = NoId THEN EnrichReversed(Tail(details), w)
    ELSE EnrichReversed(Tail(details), w) \o
         <<[id |-> Head(details), viewCount |-> w]>>

\* the records built from a detail response; provider data seen in window w
\* carries viewCount w
RECURSIVE Enrich(_, _)
Enrich(details, w) ==
    IF details = << >> THEN << >>
    ELSE IF Head(details) = NoId THEN Enrich(Tail(details), w)
    ELSE <<[id |-> Head(details), viewCount |-> w]>> \o Enrich(Tail(details), w)

RECURSIVE DedupFrom(_, _)
DedupFrom(videos, uniqueIds) ==
    IF videos = << >> THEN << >>
    ELSE IF Head(videos).id \in uniqueIds
         THEN DedupFrom(Tail(videos), uniqueIds)
         ELSE <<Head(videos)>> \o
              DedupFrom(Tail(videos), uniqueIds \cup {Head(videos).id})

\* variant: the last occurrence of an id is the one kept
RECURSIVE removeDuplicatesKeepLast(_)
removeDuplicatesKeepLast(videos) ==
    IF videos = << >> THEN << >>
    ELSE IF \E i \in 2..Len(videos) : videos[i].id = Head(videos).id
         THEN removeDuplicatesKeepLast(Tail(videos))
         ELSE <<Head(videos)>> \o removeDuplicatesKeepLast(Tail(videos))

removeDuplicateVideos(videos) == DedupFrom(videos, {})

\* variant: the result limit is applied before the dedup
FinalizeTruncateFirst(videos, totalResults) ==
    IF totalResults # None /\ Len(videos) > Get(totalResults)
    THEN removeDuplicateVideos(SubSeq(videos, 1, Get(totalResults)))
    ELSE removeDuplicateVideos(videos)

\* searchVideos, after the window loop: dedup, then the result limit
Finalize(videos, totalResults) ==
    LET uniqueVideos == removeDuplicateVideos(videos)
    IN IF totalResults # None /\ Len(uniqueVideos) > Get(totalResults)
       THEN SubSeq(uniqueVideos, 1, Get(totalResults))
       ELSE uniqueVideos

\* yearsBack || 5
YearsBack(opts) ==
    IF opts.yearsBack = None \/ Get(opts.yearsBack) = 0
    THEN DefaultYearsBack ELSE Get(opts.yearsBack)

ResolveEnd(opts) == IF opts.endDate # None THEN Get(opts.endDate) ELSE NowDay

ResolveStart(opts) ==
    IF opts.startDate # None THEN Get(opts.startDate)
    ELSE ResolveEnd(opts) - YearsBack(opts) * DaysPerYear

\* variant: the chunk end is not clamped to the overall end date
ChunkEndNoClamp(cur, end) == cur + dateChunkIntervalDays

ChunkEnd(cur, end) ==
    IF cur + dateChunkIntervalDays > end THEN end ELSE cur + dateChunkIntervalDays

\* totalResults ? totalResults - resultsFetched : undefined
Remaining(totalResults, fetched) ==
    IF totalResults # None /\ Get(totalResults) # 0
    THEN Some(Get(totalResults) - fetched) ELSE None

\* variant: the window loop also runs when the start equals the end
InRangeInclusive(cur, end) == cur <= end

\* while (currentStartDate < endDateTime)
InRange(cur, end) == cur < end

\* variant: a failed window contributes nothing
NothingOnError(chunk) == << >>

\* what fetchVideosByDateRange returns after a non-quota error broke the loop
PartialOnError(chunk) == chunk

\* variant: no cap is ever tested
CapReachedNever(cap, fetched) == FALSE

\* variant: the cap counts as reached only when it is exceeded
CapReachedStrict(cap, fetched) == cap # None /\ fetched > Get(cap)

\* variant: an absent maximum counts as reached
CapReachedOrUnset(cap, fetched) == cap = None \/ fetched >= Get(cap)

CapReached(cap, fetched) == cap # None /\ fetched >= Get(cap)

IdsOf(videos) == {videos[i].id : i \in 1..Len(videos)}

(***************************************************************************)
(* Initial state: a constructed service and the arguments of one call.     *)
(***************************************************************************)
OptDates == {None, Some(0), Some(40), Some(400)}
OptMaxResults == {None} \cup {Some(n) : n \in 0..MaxResultsOpt}
OptYearsBack == {None, Some(0), Some(1)}

\* calls that name the start date, and calls that leave it to yearsBack
OptionSets ==
    [startDate : OptDates \ {None}, endDate : OptDates,
     yearsBack : {None}, maxResults : OptMaxResults]
    \cup
    [startDate : {None}, endDate : {None, Some(40)},
     yearsBack : OptYearsBack, maxResults : {None, Some(MaxResultsOpt)}]

Init ==
    /\ options \in OptionSets
    /\ provider \in ProviderScripts
    /\ pc = "idle"
    /\ quotaExceeded = FALSE
    /\ startDateTime = 0
    /\ endDateTime = 0
    /\ currentStartDate = 0
    /\ chunkEndDate = 0
    /\ allVideos = << >>
    /\ resultsFetched = 0
    /\ chunkMax = None
    /\ chunkVideos = << >>
    /\ chunkFetched = 0
    /\ nextPageToken = None
    /\ inFlight = None
    /\ result = << >>
    /\ windows = << >>
    /\ nRequests = 0
    /\ nQuota = 0
    /\ nOther = 0
    /\ lastReq = None
    /\ lastError = None
    /\ firstOutcome = "none"
    /\ keptAtFailure = {}
    /\ failedWindows = {}
    /\ stoppedByCap = FALSE
    /\ clock = NowDay
    /\ resetTime = NowDay
    /\ tripDay = None
    /\ ticks = 0
    /\ lkPc = "idle"
    /\ lkId = "A"
    /\ lkRequests = << >>
    /\ lkResponse = None
    /\ lkResult = None
    /\ calls = << >>
    /\ trPc = "idle"
    /\ trSource = << >>
    /\ trAttempts = << >>
    /\ trResult = None
    /\ batchKind = "none"
    /\ batchInput = << >>
    /\ batchPos = 0
    /\ outputData = << >>
    /\ anPc = "idle"
    /\ content = None
    /\ analysisResult = None
    /\ shPc = "idle"
    /\ shArgs = << >>
    /\ stageLog = << >>
    /\ exitCode = None
    /\ apiPc = "idle"
    /\ apiReq = << >>
    /\ apiStore = << >>
    /\ apiQueries = << >>
    /\ apiResponses = << >>

clockVars == << clock, resetTime, tripDay, ticks >>
lookupVars == << lkPc, lkId, lkRequests, lkResponse, lkResult >>
transcriptVars == << trPc, trSource, trAttempts, trResult >>
batchVars == << batchKind, batchInput, batchPos, outputData >>
analysisVars == << anPc, content, analysisResult >>
shellVars == << shPc, shArgs, stageLog, exitCode >>
apiVars == << apiPc, apiReq, apiStore, apiQueries, apiResponses >>
frontVars == << shellVars, apiVars >>
pipelineVars == << calls, transcriptVars, batchVars, analysisVars, frontVars >>
history == << windows, nRequests, nQuota, nOther, lastReq, lastError,
             firstOutcome, keptAtFailure, failedWindows, stoppedByCap >>
chunkLocals == << chunkMax, chunkVideos, chunkFetched, nextPageToken >>
searchLocals == << startDateTime, endDateTime, currentStartDate, chunkEndDate,
                  allVideos, resultsFetched >>

\* number of the window being fetched
CurWindow == Len(windows)


(***************************************************************************)
(* Shared steps.                                                           *)
(***************************************************************************)
\* youtube.search.list(requestParams) is called with the current page token
IssueSearchRequest ==
    /\ inFlight' = Some([kind |-> "search", window |-> CurWindow,
                         token |-> nextPageToken, ids |-> << >>])
    /\ nRequests' = nRequests + 1
    /\ pc' = "search"

\* variant: a window's results are put in front of the accumulation
ReturnChunkPrepend(chunk) ==
    /\ allVideos' = chunk \o allVideos
    /\ resultsFetched' = resultsFetched + Len(chunk)
    /\ IF CapReached(options.maxResults, resultsFetched + Len(chunk))
       THEN /\ pc' = "finish"
            /\ stoppedByCap' = TRUE
            /\ UNCHANGED currentStartDate
       ELSE /\ pc' = "loop"
            /\ currentStartDate' = chunkEndDate
            /\ UNCHANGED stoppedByCap

\* variant: the window start is not moved after a window
ReturnChunkSameStart(chunk) ==
    /\ allVideos' = allVideos \o chunk
    /\ resultsFetched' = resultsFetched + Len(chunk)
    /\ IF CapReached(options.maxResults, resultsFetched + Len(chunk))
       THEN /\ pc' = "finish"
            /\ stoppedByCap' = TRUE
            /\ UNCHANGED currentStartDate
       ELSE /\ pc' = "loop"
            /\ UNCHANGED << currentStartDate, stoppedByCap >>

\* fetchVideosByDateRange returns chunk; searchVideos accumulates it, checks
\* the requested maximum and moves to the next chunk
ReturnChunk(chunk) ==
    /\ allVideos' = allVideos \o chunk
    /\ resultsFetched' = resultsFetched + Len(chunk)
    /\ IF CapReached(options.maxResults, resultsFetched + Len(chunk))
       THEN /\ pc' = "finish"
            /\ stoppedByCap' = TRUE
            /\ UNCHANGED currentStartDate
       ELSE /\ pc' = "loop"
            /\ currentStartDate' = chunkEndDate
            /\ UNCHANGED stoppedByCap

\* while (nextPageToken !== null), evaluated with the given token
LoopCondition(token, chunk) ==
    IF token # None
    THEN /\ pc' = "page"
         /\ UNCHANGED << allVideos, resultsFetched, currentStartDate, stoppedByCap >>
    ELSE ReturnChunk(chunk)

\* history of a received response
Responded(outcome, err) ==
    /\ lastReq' = inFlight
    /\ lastError' = err
    /\ firstOutcome' = IF firstOutcome = "none" THEN outcome ELSE firstOutcome

(***************************************************************************)
(* searchVideos                                                            *)
(***************************************************************************)
\* entry: the date range is resolved and the loop variables are set
CallSearchVideos ==
    /\ pc = "idle"
    /\ endDateTime' = ResolveEnd(options)
    /\ startDateTime' = ResolveStart(options)
    /\ currentStartDate' = ResolveStart(options)
    /\ allVideos' = << >>
    /\ resultsFetched' = 0
    /\ pc' = "loop"
    /\ UNCHANGED << options, provider, quotaExceeded, chunkEndDate, chunkLocals,
                    inFlight, result, history >>
    /\ UNCHANGED << clockVars, lookupVars, pipelineVars >>

\* while (currentStartDate < endDateTime): the next chunk is computed and
\* fetchVideosByDateRange is entered
EnterWindow ==
    /\ pc = "loop"
    /\ InRange(currentStartDate, endDateTime)
    /\ chunkEndDate' = ChunkEnd(currentStartDate, endDateTime)
    /\ chunkMax' = Remaining(options.maxResults, resultsFetched)
    /\ chunkVideos' = << >>
    /\ chunkFetched' = 0
    /\ nextPageToken' = None
    /\ windows' = Append(windows, [start |-> currentStartDate,
                                   end |-> ChunkEnd(currentStartDate, endDateTime)])
    /\ pc' = "page"
    /\ UNCHANGED << options, provider, quotaExceeded, startDateTime, endDateTime,
                    currentStartDate, allVideos, resultsFetched, inFlight, result,
                    nRequests, nQuota, nOther, lastReq, lastError, firstOutcome,
                    keptAtFailure, failedWindows, stoppedByCap >>
    /\ UNCHANGED << clockVars, lookupVars, pipelineVars >>

\* the loop condition fails: all date chunks are done
ExitLoop ==
    /\ pc = "loop"
    /\ ~InRange(currentStartDate, endDateTime)
    /\ pc' = "finish"
    /\ UNCHANGED << options, provider, quotaExceeded, searchLocals, chunkLocals,
                    inFlight, result, history >>
    /\ UNCHANGED << clockVars, lookupVars, pipelineVars >>

\* dedup and the result limit; searchVideos returns
Finish ==
    /\ pc = "finish"
    /\ result' = Finalize(allVideos, options.maxResults)
    /\ pc' = "done"
    /\ UNCHANGED << options, provider, quotaExceeded, searchLocals, chunkLocals,
                    inFlight, history >>
    /\ UNCHANGED << clockVars, lookupVars, pipelineVars >>

\* variant: the page is requested first and the suspension waited out while
\* the request is outstanding
SuspendForQuotaAfterRequest ==
    /\ pc = "page"
    /\ quotaExceeded
    /\ pc' = "wait"
    /\ inFlight' = Some([kind |-> "search", window |-> CurWindow,
                         token |-> nextPageToken, ids |-> << >>])
    /\ UNCHANGED << options, provider, quotaExceeded, searchLocals, chunkLocals,
                    result, history >>
    /\ resetTime' = clock + 1
    /\ UNCHANGED << clock, tripDay, ticks, lookupVars, pipelineVars >>

(***************************************************************************)
(* fetchVideosByDateRange                                                  *)
(***************************************************************************)
\* top of the do-body with the quota flag set: the task sleeps until reset
SuspendForQuota ==
    /\ pc = "page"
    /\ quotaExceeded
    /\ pc' = "wait"
    /\ UNCHANGED << options, provider, quotaExceeded, searchLocals, chunkLocals,
                    inFlight, result, history >>
    /\ resetTime' = clock + 1
    /\ UNCHANGED << clock, tripDay, ticks, lookupVars, pipelineVars >>

\* the sleep ends, the flag is cleared and the page is requested
WaitDone ==
    /\ pc = "wait"
    /\ quotaExceeded' = FALSE
    /\ IssueSearchRequest
    /\ UNCHANGED << options, provider, searchLocals, chunkLocals, result, windows,
                    nQuota, nOther, lastReq, lastError, firstOutcome,
                    keptAtFailure, failedWindows, stoppedByCap >>
    /\ clock' = IF resetTime > clock THEN resetTime ELSE clock
    /\ UNCHANGED << resetTime, tripDay, ticks, lookupVars, pipelineVars >>

\* variant: the page is requested without reading the quota flag
RequestPageIgnoringFlag ==
    /\ pc = "page"
    /\ IssueSearchRequest
    /\ UNCHANGED << options, provider, quotaExceeded, searchLocals, chunkLocals,
                    result, windows, nQuota, nOther, lastReq, lastError,
                    firstOutcome, keptAtFailure, failedWindows, stoppedByCap >>
    /\ UNCHANGED << clockVars, lookupVars, pipelineVars >>

\* top of the do-body with the quota flag clear: the page is requested
RequestPage ==
    /\ pc = "page"
    /\ ~quotaExceeded
    /\ IssueSearchRequest
    /\ UNCHANGED << options, provider, quotaExceeded, searchLocals, chunkLocals,
                    result, windows, nQuota, nOther, lastReq, lastError,
                    firstOutcome, keptAtFailure, failedWindows, stoppedByCap >>
    /\ UNCHANGED << clockVars, lookupVars, pipelineVars >>

\* variant: a page without usable items is skipped and pagination goes on
\* to the page its continuation token names
SearchResponseSkipsEmptyPage ==
    /\ pc = "search"
    /\ LET page == PageAt(provider, CurWindow, nextPageToken)
           token == ContinuationOf(provider, CurWindow, nextPageToken)
       IN IF page.items = << >> \/ VideoIds(page.items) = << >>
          THEN /\ LoopCondition(token, chunkVideos)
               /\ nextPageToken' = token
               /\ inFlight' = None
               /\ UNCHANGED << nRequests, chunkMax, chunkVideos, chunkFetched >>
          ELSE /\ inFlight' = Some([kind |-> "details", window |-> CurWindow,
                                    token |-> nextPageToken,
                                    ids |-> VideoIds(page.items)])
               /\ nRequests' = nRequests + 1
               /\ pc' = "details"
               /\ UNCHANGED << allVideos, resultsFetched, currentStartDate,
                               stoppedByCap, chunkLocals >>
    /\ Responded("ok", None)
    /\ UNCHANGED << options, provider, quotaExceeded, startDateTime, endDateTime,
                    chunkEndDate, result, windows, nQuota, nOther,
                    keptAtFailure, failedWindows >>
    /\ UNCHANGED << clockVars, lookupVars, pipelineVars >>

\* search.list answers with a page: no items or no video id ends the window,
\* otherwise the batched detail request is issued
SearchResponse ==
    /\ pc = "search"
    /\ LET page == PageAt(provider, CurWindow, nextPageToken)
       IN IF page.items = << >> \/ VideoIds(page.items) = << >>
          THEN /\ ReturnChunk(chunkVideos)
               /\ inFlight' = None
               /\ UNCHANGED nRequests
          ELSE /\ inFlight' = Some([kind |-> "details", window |-> CurWindow,
                                    token |-> nextPageToken,
                                    ids |-> VideoIds(page.items)])
               /\ nRequests' = nRequests + 1
               /\ pc' = "details"
               /\ UNCHANGED << allVideos, resultsFetched, currentStartDate,
                               stoppedByCap >>
    /\ Responded("ok", None)
    /\ UNCHANGED << options, provider, quotaExceeded, startDateTime, endDateTime,
                    chunkEndDate, chunkLocals, result, windows, nQuota, nOther,
                    keptAtFailure, failedWindows >>
    /\ UNCHANGED << clockVars, lookupVars, pipelineVars >>

\* variant: a page that crosses the chunk's maximum is cut at the maximum
DetailsResponseSplitsPage ==
    /\ pc = "details"
    /\ LET page == PageAt(provider, CurWindow, nextPageToken)
           enriched == Enrich(page.details, CurWindow)
           room == IF chunkMax = None THEN Len(enriched)
                   ELSE IF Get(chunkMax) - chunkFetched < 0 THEN 0
                   ELSE Get(chunkMax) - chunkFetched
           videoMetadata == IF Len(enriched) > room
                            THEN SubSeq(enriched, 1, room) ELSE enriched
           token == ContinuationOf(provider, CurWindow, nextPageToken)
       IN /\ chunkVideos' = chunkVideos \o videoMetadata
          /\ chunkFetched' = chunkFetched + Len(videoMetadata)
          /\ nextPageToken' = token
          /\ IF CapReached(chunkMax, chunkFetched + Len(videoMetadata))
             THEN ReturnChunk(chunkVideos \o videoMetadata)
             ELSE LoopCondition(token, chunkVideos \o videoMetadata)
    /\ inFlight' = None
    /\ Responded("ok", None)
    /\ UNCHANGED << options, provider, quotaExceeded, startDateTime, endDateTime,
                    chunkEndDate, chunkMax, result, windows, nRequests, nQuota,
                    nOther, keptAtFailure, failedWindows >>
    /\ UNCHANGED << clockVars, lookupVars, pipelineVars >>

\* videos.list answers: the records are appended, the token is advanced, the
\* chunk's maximum is checked, then the loop condition
DetailsResponse ==
    /\ pc = "details"
    /\ LET page == PageAt(provider, CurWindow, nextPageToken)
           videoMetadata == Enrich(page.details, CurWindow)
           token == ContinuationOf(provider, CurWindow, nextPageToken)
       IN /\ chunkVideos' = chunkVideos \o videoMetadata
          /\ chunkFetched' = chunkFetched + Len(videoMetadata)
          /\ nextPageToken' = token
          /\ IF CapReached(chunkMax, chunkFetched + Len(videoMetadata))
             THEN ReturnChunk(chunkVideos \o videoMetadata)
             ELSE LoopCondition(token, chunkVideos \o videoMetadata)
    /\ inFlight' = None
    /\ Responded("ok", None)
    /\ UNCHANGED << options, provider, quotaExceeded, startDateTime, endDateTime,
                    chunkEndDate, chunkMax, result, windows, nRequests, nQuota,
                    nOther, keptAtFailure, failedWindows >>
    /\ UNCHANGED << clockVars, lookupVars, pipelineVars >>

\* variant: the catch block also forgets the page token
QuotaErrorResponseDropsToken ==
    /\ pc \in {"search", "details"}
    /\ nQuota < MaxQuotaErrors
    /\ \E err \in {e \in Errors : IsQuotaError(e)} :
          Responded("quota", Some(err))
    /\ quotaExceeded' = TRUE
    /\ nextPageToken' = None
    /\ LoopCondition(None, chunkVideos)
    /\ inFlight' = None
    /\ nQuota' = nQuota + 1
    /\ UNCHANGED << options, provider, startDateTime, endDateTime, chunkEndDate,
                    chunkMax, chunkVideos, chunkFetched, result, windows, nRequests, nOther,
                    keptAtFailure, failedWindows >>
    /\ tripDay' = Some(clock)
    /\ UNCHANGED << clock, resetTime, ticks, lookupVars, pipelineVars >>

\* catch: HTTP 403 with reason quotaExceeded sets the flag and continues,
\* which in a do-while goes to the loop condition
QuotaErrorResponse ==
    /\ pc \in {"search", "details"}
    /\ nQuota < MaxQuotaErrors
    /\ \E err \in {e \in Errors : IsQuotaError(e)} :
          Responded("quota", Some(err))
    /\ quotaExceeded' = TRUE
    /\ LoopCondition(nextPageToken, chunkVideos)
    /\ inFlight' = None
    /\ nQuota' = nQuota + 1
    /\ UNCHANGED << options, provider, startDateTime, endDateTime, chunkEndDate,
                    chunkLocals, result, windows, nRequests, nOther,
                    keptAtFailure, failedWindows >>
    /\ tripDay' = Some(clock)
    /\ UNCHANGED << clock, resetTime, ticks, lookupVars, pipelineVars >>

\* catch: any other error breaks out of the pagination loop
OtherErrorResponse ==
    /\ pc \in {"search", "details"}
    /\ nOther < MaxOtherErrors
    /\ \E err \in {e \in Errors : ~IsQuotaError(e)} :
          Responded("other", Some(err))
    /\ ReturnChunk(PartialOnError(chunkVideos))
    /\ inFlight' = None
    /\ nOther' = nOther + 1
    /\ keptAtFailure' = keptAtFailure \cup IdsOf(allVideos \o chunkVideos)
    /\ failedWindows' = failedWindows \cup {CurWindow}
    /\ UNCHANGED << options, provider, quotaExceeded, startDateTime, endDateTime,
                    chunkEndDate, chunkLocals, result, windows, nRequests, nQuota >>
    /\ UNCHANGED << clockVars, lookupVars, pipelineVars >>

Next ==
    \/ CallSearchVideos
    \/ EnterWindow
    \/ ExitLoop
    \/ Finish
    \/ SuspendForQuota
    \/ WaitDone
    \/ RequestPage
    \/ SearchResponse
    \/ DetailsResponse
    \/ QuotaErrorResponse
    \/ OtherErrorResponse

Spec == Init /\ [][Next]_vars


(***************************************************************************)
(* The run of searchVideos in which every provider request succeeds,       *)
(* computed loop by loop as the code computes it.                          *)
(***************************************************************************)
RECURSIVE NoErrWindow(_, _, _, _, _)
NoErrWindow(script, w, token, chunk, cap) ==
    LET page == PageAt(script, w, token)
    IN IF page.items = << >> \/ VideoIds(page.items) = << >>
       THEN chunk
       ELSE LET chunk2 == chunk \o Enrich(page.details, w)
                next == ContinuationOf(script, w, token)
            IN IF CapReached(cap, Len(chunk2)) \/ next = None
               THEN chunk2
               ELSE NoErrWindow(script, w, next, chunk2, cap)

RECURSIVE NoErrSearch(_, _, _, _, _)
NoErrSearch(script, opts, cur, w, acc) ==
    IF ~InRange(cur, ResolveEnd(opts))
    THEN acc
    ELSE LET chunk == NoErrWindow(script, w, None, << >>,
                                  Remaining(opts.maxResults, Len(acc)))
             acc2 == acc \o chunk
         IN IF CapReached(opts.maxResults, Len(acc2))
            THEN acc2
            ELSE NoErrSearch(script, opts, ChunkEnd(cur, ResolveEnd(opts)),
                             w + 1, acc2)

NoErrResult(script, opts) ==
    Finalize(NoErrSearch(script, opts, ResolveStart(opts), 1, << >>),
             opts.maxResults)

\* the stepwise run agrees with the error-free run when nothing fails
NoErrAgrees ==
    (pc = "done" /\ nQuota = 0 /\ nOther = 0)
        => result = NoErrResult(provider, options)

LastWasQuotaOnSearch ==
    /\ lastReq # None
    /\ Get(lastReq).kind = "search"
    /\ lastError # None
    /\ IsQuotaError(Get(lastError))

(***************************************************************************)
(* C1: quota retry is transparent.  A run in which exactly one request is  *)
(* answered QuotaExceeded, and every other request as in the error-free    *)
(* run, returns the record sequence of the error-free run.                 *)
(***************************************************************************)
C1_QuotaRetryTransparent ==
    (pc = "done" /\ nQuota = 1 /\ nOther = 0)
        => result = NoErrResult(provider, options)

(***************************************************************************)
(* C2: after a QuotaExceeded response to a search-page request (first page *)
(* or later) the flag is set, the suspension is waited out, and the next   *)
(* search-page request is for the same window and the same page token: the *)
(* window is not ended and no page is skipped.                             *)
(***************************************************************************)
C2_QuotaRetrySamePage ==
    LastWasQuotaOnSearch =>
        \/ /\ pc = "page"
           /\ quotaExceeded
           /\ CurWindow = Get(lastReq).window
           /\ nextPageToken = Get(lastReq).token
        \/ /\ pc = "wait"
           /\ CurWindow = Get(lastReq).window
           /\ nextPageToken = Get(lastReq).token
        \/ /\ pc = "search"
           /\ ~quotaExceeded
           /\ Get(inFlight) = Get(lastReq)

\* the part of C2 that the code keeps: a QuotaExceeded response to a page
\* requested with a token is retried with that token
C2_LaterPagesRetried ==
    (LastWasQuotaOnSearch /\ Get(lastReq).token # None) =>
        \/ /\ pc \in {"page", "wait"}
           /\ CurWindow = Get(lastReq).window
           /\ nextPageToken = Get(lastReq).token
        \/ /\ pc = "search"
           /\ Get(inFlight) = Get(lastReq)


\* index of the first record of videos with the given id
FirstIndex(videos, id) ==
    CHOOSE k \in 1..Len(videos) :
        /\ videos[k].id = id
        /\ \A m \in 1..(k - 1) : videos[m].id # id

NoRepeatedId(videos) ==
    \A i, j \in 1..Len(videos) : videos[i].id = videos[j].id => i = j

(***************************************************************************)
(* C3: with maxResults set, the returned sequence has at most maxResults   *)
(* records, exactly maxResults when the deduplicated accumulation holds at *)
(* least that many, and is a prefix of the deduplicated accumulation: the  *)
(* limit is applied once, after all windows and after the dedup.           *)
(***************************************************************************)
C3_ResultCap ==
    (pc = "done" /\ options.maxResults # None) =>
        LET m == Get(options.maxResults)
            unique == removeDuplicateVideos(allVideos)
        IN /\ Len(result) <= m
           /\ Len(unique) >= m => Len(result) = m
           /\ Len(result) <= Len(unique)
           /\ \A i \in 1..Len(result) : result[i] = unique[i]
           /\ Len(unique) < m => result = unique

\* a run in which the limit cuts a deduplicated accumulation that held
\* repeated ids and more than maxResults distinct ones
C3_Witness ==
    /\ pc = "done"
    /\ options.maxResults # None
    /\ Get(options.maxResults) >= 2
    /\ Len(removeDuplicateVideos(allVideos)) > Get(options.maxResults)
    /\ Len(allVideos) > Len(removeDuplicateVideos(allVideos))
    /\ Len(result) = Get(options.maxResults)

(***************************************************************************)
(* C4: removeDuplicateVideos keeps exactly one record per distinct id, the *)
(* first occurrence of that id, in the relative order of the input; the    *)
(* sequence searchVideos returns never holds two records with one id.      *)
(***************************************************************************)
C4_DedupFirstSeen ==
    LET input == allVideos \o chunkVideos
        output == removeDuplicateVideos(input)
    IN /\ NoRepeatedId(output)
       /\ IdsOf(output) = IdsOf(input)
       /\ \A i \in 1..Len(output) :
              output[i] = input[FirstIndex(input, output[i].id)]
       /\ \A i, j \in 1..Len(output) :
              i < j => FirstIndex(input, output[i].id) < FirstIndex(input, output[j].id)
       /\ pc = "done" => NoRepeatedId(result)

\* a returned result whose accumulation held the same id twice, from
\* different windows (so with different provider data)
C4_Witness ==
    /\ pc = "done"
    /\ Len(result) >= 2
    /\ \E i, j \in 1..Len(allVideos) :
          /\ i < j
          /\ allVideos[i].id = allVideos[j].id
          /\ allVideos[i] # allVideos[j]
          /\ \E k \in (i + 1)..(j - 1) : allVideos[k].id # allVideos[i].id

(***************************************************************************)
(* C5: for start < end the windows processed are contiguous, the first     *)
(* starts at start, every window has start < end and spans at most 180     *)
(* days, only the last may be shorter, and, unless the result cap stopped  *)
(* the search early, the last window ends at end.                          *)
(***************************************************************************)
C5_WindowsCoverRange ==
    /\ \A i \in 1..Len(windows) :
          /\ windows[i].start < windows[i].end
          /\ windows[i].end - windows[i].start <= dateChunkIntervalDays
          /\ windows[i].end <= endDateTime
          /\ i = 1 => windows[i].start = startDateTime
          /\ i < Len(windows) =>
                /\ windows[i].end = windows[i + 1].start
                /\ windows[i].end - windows[i].start = dateChunkIntervalDays
    /\ (pc = "done" /\ ~stoppedByCap /\ startDateTime < endDateTime) =>
          /\ windows # << >>
          /\ windows[Len(windows)].end = endDateTime

\* a finished, uncapped search over three or more windows, the last short
C5_Witness ==
    /\ pc = "done"
    /\ ~stoppedByCap
    /\ Len(windows) >= 3
    /\ windows[Len(windows)].end - windows[Len(windows)].start < dateChunkIntervalDays
    /\ windows[Len(windows)].end = endDateTime

(***************************************************************************)
(* C6: when the resolved start is equal to or later than the resolved end, *)
(* searchVideos processes no window, issues no provider request and        *)
(* returns the empty sequence.                                             *)
(***************************************************************************)
C6_EmptyRange ==
    (pc # "idle" /\ startDateTime >= endDateTime) =>
        /\ windows = << >>
        /\ nRequests = 0
        /\ inFlight = None
        /\ pc \in {"loop", "finish", "done"}
        /\ pc = "done" => result = << >>

\* a returned call whose start date equals its end date
C6_Witness ==
    /\ pc = "done"
    /\ options.startDate # None
    /\ startDateTime = endDateTime

\* a returned call whose start date is later than its end date
C6_WitnessReversed ==
    /\ pc = "done"
    /\ startDateTime > endDateTime


\* the records accumulated so far, the current window's included
Accumulated ==
    IF pc \in {"page", "wait", "search", "details"}
    THEN allVideos \o chunkVideos ELSE allVideos

WindowsComplete ==
    /\ windows # << >>
    /\ windows[Len(windows)].end = endDateTime

(***************************************************************************)
(* C7 as stated: when page k of a window fails with a non-quota error, the *)
(* items of pages 1..k-1 of that window and of earlier windows are in the  *)
(* final result, the window is not retried and the remaining windows are   *)
(* processed.                                                              *)
(***************************************************************************)
C7_PartialResultsInResult ==
    /\ inFlight # None => Get(inFlight).window \notin failedWindows
    /\ pc = "done" => keptAtFailure \subseteq IdsOf(result)
    /\ (pc = "done" /\ failedWindows # {} /\ ~stoppedByCap) => WindowsComplete

(***************************************************************************)
(* C7 where maxResults is not 0: those items stay in the accumulated       *)
(* sequence, and are in the final result whenever maxResults is absent or  *)
(* at least 1 (with maxResults = 0 the window is paginated without a cap   *)
(* and the final truncation returns the empty sequence); the failed window *)
(* is not requested again and the remaining windows are processed unless   *)
(* the result cap ends the search.                                         *)
(***************************************************************************)
C7_PartialResultsKept ==
    /\ inFlight # None => Get(inFlight).window \notin failedWindows
    /\ keptAtFailure \subseteq IdsOf(Accumulated)
    /\ (pc = "done" /\ options.maxResults # << 0 >>)
          => keptAtFailure \subseteq IdsOf(result)
    /\ (pc = "done" /\ failedWindows # {} /\ ~stoppedByCap) => WindowsComplete

\* a returned search whose first window failed after contributing items and
\* whose later windows added further ids
C7_Witness ==
    /\ pc = "done"
    /\ failedWindows = {1}
    /\ keptAtFailure # {}
    /\ Len(windows) >= 2
    /\ keptAtFailure \subseteq IdsOf(result)
    /\ IdsOf(result) # keptAtFailure

(***************************************************************************)
(* C8: if the very first provider request of a search fails with a         *)
(* non-quota error, searchVideos aborts with an error instead of           *)
(* returning.                                                              *)
(***************************************************************************)
C8_FirstFailureSurfaces ==
    firstOutcome = "other" => pc # "done"

(***************************************************************************)
(* C9: a permanent provider error (malformed query, authentication         *)
(* failure) on any page request aborts the whole search: no further window *)
(* is requested and searchVideos does not return normally.                 *)
(***************************************************************************)
C9_PermanentErrorAborts ==
    (lastError # None /\ Get(lastError) \in PermanentErrors) =>
        pc \notin {"page", "wait", "search", "details", "done"}

\* windows of the chunk sequence of [start, end)
NumWindows(start, end) ==
    IF start < end
    THEN (end - start + dateChunkIntervalDays - 1) \div dateChunkIntervalDays
    ELSE 0

IsStopPage(page) == page.items = << >> \/ VideoIds(page.items) = << >>

\* pages of a window before its first page without items or video ids
PagesBeforeStop(pages) ==
    LET stops == {p \in 1..Len(pages) : IsStopPage(pages[p])}
    IN IF stops = {} THEN Len(pages)
       ELSE (CHOOSE p \in stops : \A q \in stops : p <= q) - 1

RECURSIVE ConcatPages(_, _, _)
ConcatPages(pages, w, n) ==
    IF n = 0 THEN << >>
    ELSE ConcatPages(pages, w, n - 1) \o Enrich(pages[n].details, w)

\* the enriched items of the pages of windows 1..n: of every page, or of the
\* pages before each window's first stop page
RECURSIVE ConcatWindows(_, _, _)
ConcatWindows(script, n, untilStop) ==
    IF n = 0 THEN << >>
    ELSE LET pages == WindowPages(script, n)
             count == IF untilStop THEN PagesBeforeStop(pages) ELSE Len(pages)
         IN ConcatWindows(script, n - 1, untilStop) \o ConcatPages(pages, n, count)

NoRequestFailed == nQuota = 0 /\ nOther = 0

C14_RangeResolution ==
    pc # "idle" =>
        /\ endDateTime = (IF options.endDate # None
                          THEN Get(options.endDate) ELSE NowDay)
        /\ startDateTime =
              (IF options.startDate # None THEN Get(options.startDate)
               ELSE endDateTime
                    - (IF options.yearsBack # None THEN Get(options.yearsBack)
                       ELSE DefaultYearsBack) * DaysPerYear)

\* the same resolution for every call that does not pass yearsBack = 0
C14_RangeResolutionNonZero ==
    (pc # "idle" /\ options.yearsBack # Some(0)) => C14_RangeResolution

\* a call with yearsBack = 0 and no start date searched more than one window
C14_ZeroYearsBackSearched ==
    /\ pc = "done"
    /\ options.startDate = None
    /\ options.yearsBack = Some(0)
    /\ startDateTime < endDateTime
    /\ Len(windows) > 1

\* the records of window w in a sequence of tagged records
OfWindow(videos, w) == SelectSeq(videos, LAMBDA v : v.viewCount = w)

\* the records keep the order of the windows they came from
InWindowOrder(videos) ==
    \A i, j \in DOMAIN videos : i < j => videos[i].viewCount <= videos[j].viewCount

\* the earliest window in which id was collected
FirstWindowOf(id) ==
    LET ws == {allVideos[i].viewCount : i \in {k \in DOMAIN allVideos :
                                                  allVideos[k].id = id}}
    IN CHOOSE w \in ws : \A x \in ws : w <= x

(***************************************************************************)
(* C15: the sequence returned by searchVideos is the deduplicated          *)
(* concatenation of the per-window results in window order, oldest window  *)
(* first, and within a window in page order and then in provider detail    *)
(* order: the accumulation holds, window after window, the enriched        *)
(* details of a window's first pages in order, and in the result a record  *)
(* first seen in an earlier window never comes after a record first seen   *)
(* in a later window.                                                      *)
(***************************************************************************)
C15_WindowOrder ==
    /\ InWindowOrder(allVideos)
    /\ \A w \in 1..Len(windows) :
          \E k \in 0..Len(WindowPages(provider, w)) :
              OfWindow(allVideos, w) = ConcatPages(WindowPages(provider, w), w, k)
    /\ pc = "done" =>
          /\ result = Finalize(allVideos, options.maxResults)
          /\ options.maxResults = None => result = removeDuplicateVideos(allVideos)
          /\ \A i \in DOMAIN result :
                result[i].viewCount = FirstWindowOf(result[i].id)
          /\ InWindowOrder(result)

\* a result with records of two windows out of three searched, one id seen
\* again in a later window
C15_Witness ==
    /\ pc = "done"
    /\ Len(windows) >= 3
    /\ {result[i].viewCount : i \in DOMAIN result} = {1, 2}
    /\ Len(allVideos) > Len(result)
    /\ \E i \in DOMAIN allVideos :
          allVideos[i].viewCount > FirstWindowOf(allVideos[i].id)

(***************************************************************************)
(* C16: the quota flag goes from false to true only in the step that       *)
(* receives a QuotaExceeded response, and from true to false only in the   *)
(* step that ends a suspension wait of fetchVideosByDateRange; no other    *)
(* step (another error, a successful page, the end of a window or of the   *)
(* search) changes it.                                                     *)
(***************************************************************************)
C16_FlagLifecycle ==
    [][ /\ (~quotaExceeded /\ quotaExceeded') =>
              /\ inFlight # None
              /\ inFlight' = None
              /\ lastError' # None
              /\ Get(lastError').status = 403
              /\ Get(lastError').reason = "quotaExceeded"
        /\ (quotaExceeded /\ ~quotaExceeded') =>
              /\ pc = "wait"
              /\ pc' = "search"
              /\ clock' >= resetTime
        /\ (quotaExceeded' # quotaExceeded) \/ pc # "wait" \/ pc' = "wait"
      ]_vars

\* a search that tripped the flag, waited the suspension out and went on
\* with the flag clear to its end
C16_Witness ==
    /\ pc = "done"
    /\ nQuota >= 1
    /\ nOther >= 1
    /\ ~quotaExceeded
    /\ clock > NowDay

\* a search that ended with the flag still set
C16_WitnessLeftSet ==
    /\ pc = "done"
    /\ quotaExceeded

(***************************************************************************)
(* C17: within a search, no search-page request and no batched detail      *)
(* request of fetchVideosByDateRange is outstanding or issued while the    *)
(* quota flag is true: the flag is read before each page request, and a    *)
(* true flag leads to the wait before the request is sent.                 *)
(***************************************************************************)
C17_NoRequestWhileExceeded ==
    /\ inFlight # None => ~quotaExceeded
    /\ pc \in {"search", "details"} => (inFlight # None /\ ~quotaExceeded)
    /\ pc = "wait" => (quotaExceeded /\ inFlight = None)

\* the step form: a request is sent only in a step that ends with the flag
\* clear, and with the flag set only the end of the wait sends one
C17_RequestsFollowWait ==
    [][ nRequests' > nRequests =>
            /\ ~quotaExceeded'
            /\ quotaExceeded => pc = "wait"
      ]_vars

\* a batched detail request outstanding after an earlier quota suspension
C17_Witness ==
    /\ inFlight # None
    /\ Get(inFlight).kind = "details"
    /\ nQuota >= 1
    /\ clock > NowDay

\* a request for a further page of the current window is outstanding
FurtherPageRequested ==
    /\ inFlight # None
    /\ Get(inFlight).kind = "search"
    /\ Get(inFlight).token # None

(***************************************************************************)
(* C19: for every maxResults that is set (any integer >= 0) the pagination *)
(* of a window is bounded by remaining = maxResults - fetchedSoFar: no     *)
(* further page of a window is requested once the items collected for the  *)
(* window number at least remaining.                                       *)
(***************************************************************************)
C19_PaginationBounded ==
    (options.maxResults # None /\ FurtherPageRequested) =>
        chunkFetched < Get(options.maxResults) - resultsFetched

\* the bound as it holds: for every maxResults of at least 1
C19_PaginationBoundedPositive ==
    (options.maxResults # None /\ Get(options.maxResults) >= 1
        /\ FurtherPageRequested) =>
        /\ chunkMax = Some(Get(options.maxResults) - resultsFetched)
        /\ chunkFetched < Get(options.maxResults) - resultsFetched

\* a further page is requested under a positive maxResults
C19_WitnessPositive ==
    /\ options.maxResults # None
    /\ Get(options.maxResults) >= 1
    /\ FurtherPageRequested
    /\ chunkFetched >= 2

\* the number of windows whose fetchVideosByDateRange call has returned
WindowsReturned ==
    IF pc \in {"page", "wait", "search", "details"}
    THEN Len(windows) - 1 ELSE Len(windows)

(***************************************************************************)
(* C20: once the number of records accumulated before dedup is at least    *)
(* maxResults, searchVideos issues no further provider request (none is    *)
(* outstanding): the remaining windows are skipped and the search goes     *)
(* straight to dedup and truncation.                                       *)
(***************************************************************************)
C20_NoRequestOnceCapReached ==
    (options.maxResults # None /\ pc # "idle"
        /\ Len(allVideos) >= Get(options.maxResults)) =>
        /\ inFlight = None
        /\ pc \notin {"search", "details"}

(***************************************************************************)
(* C20 amended: the cap is tested when a window returns.  Once a window    *)
(* has returned and the number of records accumulated before dedup is at   *)
(* least maxResults, no further request is issued, the remaining windows   *)
(* are skipped and the search goes straight to dedup and truncation; until *)
(* then the accumulation is below maxResults, except before the first      *)
(* window returns when maxResults is 0.                                    *)
(***************************************************************************)
C20_StopAtCap ==
    /\ resultsFetched = Len(allVideos)
    /\ (options.maxResults # None /\ WindowsReturned >= 1
          /\ Len(allVideos) >= Get(options.maxResults)) =>
          /\ inFlight = None
          /\ pc \in {"finish", "done"}
          /\ stoppedByCap
          /\ Len(windows) = WindowsReturned
    /\ (options.maxResults # None /\ pc # "idle" /\ WindowsReturned = 0
          /\ Len(allVideos) >= Get(options.maxResults)) =>
          Get(options.maxResults) = 0

\* the step form: a request is sent only below the cap or before any window
\* has returned
C20_RequestsBelowCap ==
    [][ (nRequests' > nRequests /\ options.maxResults # None) =>
            \/ WindowsReturned = 0
            \/ Len(allVideos) < Get(options.maxResults)
      ]_vars

\* a search with a positive cap that stopped at the cap after its second
\* window and skipped the rest of a longer range
C20_Witness ==
    /\ pc = "done"
    /\ stoppedByCap
    /\ options.maxResults # None
    /\ Get(options.maxResults) >= 1
    /\ Len(windows) = 2
    /\ Len(windows) < NumWindows(startDateTime, endDateTime)
    /\ Len(allVideos) >= Get(options.maxResults)

(***************************************************************************)
(* The service over wall-clock time.  lib/youtube.ts holds one service     *)
(* instance for the life of the process, so searchVideos is called on it   *)
(* again and again and the quota flag of one call is the flag the next     *)
(* call starts with; midnight can pass between any two steps.              *)
(***************************************************************************)
ClockOptions ==
    [startDate |-> Some(0), endDate |-> Some(NowDay), yearsBack |-> None,
     maxResults |-> None]

InitClock ==
    /\ Init
    /\ options = ClockOptions

\* a midnight passes
Tick ==
    /\ pc # "idle"
    /\ ticks < MaxTicks
    /\ clock' = clock + 1
    /\ ticks' = ticks + 1
    /\ UNCHANGED << options, provider, pc, quotaExceeded, searchLocals,
                    chunkLocals, inFlight, result, history, resetTime, tripDay,
                    lookupVars, pipelineVars >>

\* searchDiseaseVideos is called again on the same instance: the fields of
\* the instance are kept, the locals of the call are fresh
SearchAgain ==
    /\ pc = "done"
    /\ pc' = "idle"
    /\ result' = << >>
    /\ windows' = << >>
    /\ nRequests' = 0
    /\ lastReq' = None
    /\ lastError' = None
    /\ firstOutcome' = "none"
    /\ keptAtFailure' = {}
    /\ failedWindows' = {}
    /\ stoppedByCap' = FALSE
    /\ UNCHANGED << options, provider, quotaExceeded, searchLocals, chunkLocals,
                    inFlight, nQuota, nOther, clockVars, lookupVars, pipelineVars >>

NextClock ==
    \/ Next
    \/ Tick
    \/ SearchAgain

SpecClock == InitClock /\ [][NextClock]_vars

(***************************************************************************)
(* C18: the suspension that follows a QuotaExceeded response ends at the   *)
(* start of the calendar day after the day on which that response was      *)
(* received: the deadline of a wait is the day after the day the flag was  *)
(* tripped, whenever the wait itself begins.                               *)
(***************************************************************************)
C18_DeadlineAfterTripDay ==
    pc = "wait" => (tripDay # None /\ resetTime = Get(tripDay) + 1)

\* the deadline as computed: the day after the day on which the wait begins,
\* which is the day after the trip only if no midnight passed in between
C18_DeadlineAfterWaitStart ==
    [][ (pc # "wait" /\ pc' = "wait") =>
            /\ resetTime' = clock + 1
            /\ (tripDay # None /\ Get(tripDay) = clock)
                  => resetTime' = Get(tripDay) + 1
      ]_vars

\* a wait that began a day after the trip, in a later call on the instance
C18_WitnessLateWait ==
    /\ pc = "wait"
    /\ tripDay # None
    /\ resetTime = Get(tripDay) + 2
    /\ nQuota = 1
    /\ windows # << >> /\ Len(windows) = 1

(***************************************************************************)
(* parseDuration.  A string is a sequence of one-character strings.        *)
(***************************************************************************)
DigitChars == <<"0", "1", "2", "3", "4", "5", "6", "7", "8", "9">>
Digits == {DigitChars[i] : i \in DOMAIN DigitChars}
DigitVal(c) == (CHOOSE i \in DOMAIN DigitChars : DigitChars[i] = c) - 1

\* parseInt of a non-empty run of decimal digits
RECURSIVE ParseInt(_)
ParseInt(digs) ==
    IF digs = << >> THEN 0
    ELSE 10 * ParseInt(SubSeq(digs, 1, Len(digs) - 1)) + DigitVal(digs[Len(digs)])

\* \d+ : the length of the longest run of digits of s that starts at pos
RECURSIVE DigitRun(_, _)
DigitRun(s, pos) ==
    IF pos <= Len(s) /\ s[pos] \in Digits THEN 1 + DigitRun(s, pos + 1) ELSE 0

\* (\d+U)? at pos: the group takes a run of digits followed by the unit
\* letter when there is one there, and nothing otherwise
Group(s, pos, unit) ==
    LET n == DigitRun(s, pos)
    IN IF n >= 1 /\ pos + n <= Len(s) /\ s[pos + n] = unit
       THEN [value |-> ParseInt(SubSeq(s, pos, pos + n - 1)), next |-> pos + n + 1]
       ELSE [value |-> 0, next |-> pos]

\* duration.match(/PT(\d+H)?(\d+M)?(\d+S)?/): the match is taken at the
\* first "PT" of the string, wherever it is, and nothing is required after
\* the groups
parseDuration(duration) ==
    LET starts == {i \in 1..(Len(duration) - 1) :
                      duration[i] = "P" /\ duration[i + 1] = "T"}
    IN IF starts = {} THEN 0
       ELSE LET i == CHOOSE x \in starts : \A y \in starts : x <= y
                h == Group(duration, i + 2, "H")
                m == Group(duration, h.next, "M")
                s == Group(duration, m.next, "S")
            IN h.value * 3600 + m.value * 60 + s.value

(***************************************************************************)
(* getVideoDetails                                                         *)
(***************************************************************************)
DurationAlphabet == {"P", "T", "S", "2", "x"}

\* the duration strings a detail record may carry: every string over the
\* alphabet up to the length bound, and some longer ones with hours and
\* minutes; the empty string stands for an absent duration as well
DurationInputs ==
    UNION {[1..k -> DurationAlphabet] : k \in 0..MaxDurationLen}
    \cup { <<"P", "T", "1", "H", "2", "M", "3", "S">>,
           <<"P", "T", "0", "S">>,
           <<"P", "T", "4", "5", "M">>,
           <<"P", "T", "2", "M", "2", "H">>,
           <<"P", "1", "D", "T", "2", "H">>,
           <<"P", "T", "1", "0", "H", "0", "7", "S">> }

LookupIds == {"A", "B"}

\* response.data.items of videos.list for one id: no record, or one record
\* whose own id field is the requested id or is missing
LookupItems(videoId) ==
    { << >> } \cup
    { <<[id |-> i, duration |-> d]>> : i \in {videoId, NoId}, d \in DurationInputs }

\* variant: the record is identified by the id field of the provider's record
LookupMetadataFromVideo(videoId, video) ==
    [id |-> video.id,
     durationInSeconds |->
        parseDuration(IF video.duration = << >> THEN <<"P", "T", "0", "S">>
                      ELSE video.duration)]

\* the metadata built from the provider's record
LookupMetadata(videoId, video) ==
    [id |-> videoId,
     durationInSeconds |->
        parseDuration(IF video.duration = << >> THEN <<"P", "T", "0", "S">>
                      ELSE video.duration)]

searchVars ==
    << options, provider, pc, quotaExceeded, searchLocals, chunkLocals, inFlight,
       result, history, clockVars >>

\* entry: videos.list is called for the one id, whatever the quota flag
CallGetVideoDetails ==
    /\ lkPc = "idle"
    /\ pc = "idle"
    /\ \E videoId \in LookupIds : lkId' = videoId
    /\ lkRequests' = Append(lkRequests, "videos.list")
    /\ lkPc' = "details"
    /\ UNCHANGED << lkResponse, lkResult, searchVars, pipelineVars >>

\* videos.list answers: no first item gives null, otherwise the metadata
LookupResponse ==
    /\ lkPc = "details"
    /\ \E items \in LookupItems(lkId) :
          /\ lkResponse' = Some([items |-> items, error |-> None])
          /\ lkResult' = IF items = << >> THEN None
                         ELSE Some(LookupMetadata(lkId, items[1]))
    /\ lkPc' = "done"
    /\ UNCHANGED << lkId, lkRequests, searchVars, pipelineVars >>

\* videos.list fails: the catch block logs and returns null
LookupError ==
    /\ lkPc = "details"
    /\ \E err \in Errors :
          lkResponse' = Some([items |-> << >>, error |-> Some(err)])
    /\ lkResult' = None
    /\ lkPc' = "done"
    /\ UNCHANGED << lkId, lkRequests, searchVars, pipelineVars >>

InitLookup ==
    /\ Init
    /\ options = ClockOptions
    /\ provider = CHOOSE script \in ProviderScripts : TRUE

NextLookup ==
    \/ CallGetVideoDetails
    \/ LookupResponse
    \/ LookupError

SpecLookup == InitLookup /\ [][NextLookup]_vars

\* the duration string parseDuration was given by the finished lookup
LookupDuration ==
    LET d == Get(lkResponse).items[1].duration
    IN IF d = << >> THEN <<"P", "T", "0", "S">> ELSE d

LookupFound ==
    /\ lkPc = "done"
    /\ lkResponse # None
    /\ Get(lkResponse).error = None
    /\ Get(lkResponse).items # << >>

UnitChars == {"H", "M", "S"}
UnitRank(c) == IF c = "H" THEN 1 ELSE IF c = "M" THEN 2 ELSE 3
UnitWeight(c) == IF c = "H" THEN 3600 ELSE IF c = "M" THEN 60 ELSE 1

\* positions of the unit letters of a string
UnitPositions(s) == {p \in DOMAIN s : s[p] \in UnitChars}

\* the string is wholly of the form PT[nH][nM][nS]: it starts with PT, the
\* rest holds digits and unit letters only, it is empty or ends with a unit
\* letter, every unit letter directly follows a digit, and the unit letters
\* come in the order H, M, S, each at most once
WellFormedDuration(s) ==
    /\ Len(s) >= 2
    /\ s[1] = "P"
    /\ s[2] = "T"
    /\ \A p \in 3..Len(s) : s[p] \in Digits \cup UnitChars
    /\ Len(s) > 2 => s[Len(s)] \in UnitChars
    /\ \A p \in UnitPositions(s) : p > 3 /\ s[p - 1] \in Digits
    /\ \A p, q \in UnitPositions(s) : p < q => UnitRank(s[p]) < UnitRank(s[q])

\* the number written in front of the unit letter at position p
NumberBefore(s, p) ==
    LET before == {q \in UnitPositions(s) : q < p}
        from == IF before = {} THEN 3
                ELSE 1 + CHOOSE q \in before : \A r \in before : r <= q
    IN ParseInt(SubSeq(s, from, p - 1))

RECURSIVE SumOver(_, _)
SumOver(s, ps) ==
    IF ps = {} THEN 0
    ELSE LET p == CHOOSE x \in ps : TRUE
         IN NumberBefore(s, p) * UnitWeight(s[p]) + SumOver(s, ps \ {p})

\* hours*3600 + minutes*60 + seconds of a well-formed string
DurationValue(s) == SumOver(s, UnitPositions(s))

(***************************************************************************)
(* C11: parseDuration returns hours*3600 + minutes*60 + seconds for a      *)
(* duration string of the form PT[nH][nM][nS] ("PT1H2M3S" gives 3723,      *)
(* "PT0S" gives 0, "PT45M" gives 2700) and returns 0, without raising, for *)
(* every malformed string, that is every string not wholly of that form.   *)
(***************************************************************************)
C11_ParseDuration ==
    LookupFound =>
        Get(lkResult).durationInSeconds =
            (IF WellFormedDuration(LookupDuration)
             THEN DurationValue(LookupDuration) ELSE 0)

\* the part that holds: well-formed strings, the three examples among them,
\* and strings without any "PT"
C11_WellFormedParsed ==
    /\ (LookupFound /\ WellFormedDuration(LookupDuration)) =>
          Get(lkResult).durationInSeconds = DurationValue(LookupDuration)
    /\ parseDuration(<<"P", "T", "1", "H", "2", "M", "3", "S">>) = 3723
    /\ parseDuration(<<"P", "T", "0", "S">>) = 0
    /\ parseDuration(<<"P", "T", "4", "5", "M">>) = 2700
    /\ parseDuration(<<"P", "T", "1", "0", "H", "0", "7", "S">>) = 36007
    /\ parseDuration(<<"P", "1", "D", "T", "2", "H">>) = 0

\* a lookup that parsed a well-formed duration with a seconds part
C11_WitnessWellFormed ==
    /\ LookupFound
    /\ WellFormedDuration(LookupDuration)
    /\ Get(lkResult).durationInSeconds = 22

\* the lookup received an error response
LookupFailed ==
    /\ lkPc = "done"
    /\ lkResponse # None
    /\ Get(lkResponse).error # None

(***************************************************************************)
(* C12: getVideoDetails issues exactly one detail request and no search    *)
(* request; it returns absent (null) when the provider returns no record   *)
(* for the id, returns absent rather than raising when the request fails,  *)
(* and otherwise returns a record whose id equals the requested id.        *)
(***************************************************************************)
C12_SingleLookup ==
    /\ lkPc \in {"idle", "details", "done"}
    /\ lkPc \in {"details", "done"} =>
          /\ lkRequests = <<"videos.list">>
          /\ nRequests = 0
          /\ inFlight = None
    /\ lkPc = "done" =>
          /\ lkResponse # None
          /\ (Get(lkResponse).error = None /\ Get(lkResponse).items = << >>)
                => lkResult = None
          /\ LookupFailed => lkResult = None
          /\ LookupFound =>
                /\ lkResult # None
                /\ Get(lkResult).id = lkId
    /\ lkPc # "done" => lkResult = None

\* a lookup answered with a record that carries no id of its own
C12_Witness ==
    /\ LookupFound
    /\ Get(lkResponse).items[1].id = NoId
    /\ Get(lkResult).id = lkId
    /\ Get(lkResult).durationInSeconds > 0

\* a lookup whose request failed with a quota response and returned null
C12_WitnessFailed ==
    /\ LookupFailed
    /\ IsQuotaError(Get(Get(lkResponse).error))
    /\ lkResult = None

(***************************************************************************)
(* C13: the single-item lookup consults the quota governor: no provider    *)
(* request of getVideoDetails is outstanding while the quota state of the  *)
(* service is exceeded, and a QuotaExceeded response to the lookup trips   *)
(* the quota state.                                                        *)
(***************************************************************************)
C13_LookupConsultsGovernor ==
    /\ lkPc = "details" => ~quotaExceeded
    /\ (LookupFailed /\ Get(Get(lkResponse).error).status = 403
          /\ Get(Get(lkResponse).error).reason = "quotaExceeded")
          => quotaExceeded

\* the lookup as it is: it never writes the quota flag
C13_LookupLeavesFlag ==
    [][ (lkPc' # lkPc) => quotaExceeded' = quotaExceeded ]_vars

\* the largest number of detail records a page of the provider holds (the
\* code asks for at most maxResultsPerRequest = 50 items a page)
LargestPage(script) ==
    LET sizes == UNION {{Len(script[w][p].details) : p \in DOMAIN script[w]} :
                           w \in DOMAIN script} \cup {0}
    IN CHOOSE n \in sizes : \A m \in sizes : m <= n

\* the window's chunk is the enriched details of its first k pages
WholePages(chunk, w, k) ==
    /\ k \in 0..Len(WindowPages(provider, w))
    /\ chunk = ConcatPages(WindowPages(provider, w), w, k)

(***************************************************************************)
(* C21: the result of fetchVideosByDateRange is always a concatenation of  *)
(* whole pages: the cap is checked only after a page's enriched items were *)
(* appended, so a page that crosses the cap is kept whole; with a cap      *)
(* c >= 1 the window had fewer than c records before its last page was     *)
(* appended, hence returns fewer than c plus one page of records.          *)
(***************************************************************************)
C21_WholePagesKept ==
    /\ windows # << >> =>
          /\ \E k \in 0..Len(WindowPages(provider, CurWindow)) :
                WholePages(chunkVideos, CurWindow, k)
          /\ chunkFetched = Len(chunkVideos)
    /\ \A w \in 1..WindowsReturned :
          \E k \in 0..Len(WindowPages(provider, w)) :
              WholePages(OfWindow(allVideos, w), w, k)
    /\ (windows # << >> /\ chunkMax # None) =>
          /\ Get(chunkMax) >= 1
          /\ Len(chunkVideos) < Get(chunkMax) + LargestPage(provider)
          /\ \E k \in 0..Len(WindowPages(provider, CurWindow)) :
                /\ WholePages(chunkVideos, CurWindow, k)
                /\ k >= 1 =>
                      Len(ConcatPages(WindowPages(provider, CurWindow),
                                      CurWindow, k - 1)) < Get(chunkMax)

\* a window returned with a page that crossed its cap, kept whole
C21_Witness ==
    /\ pc = "done"
    /\ chunkMax # None
    /\ Len(chunkVideos) > Get(chunkMax)
    /\ \E w \in 1..Len(windows) : Len(OfWindow(allVideos, w)) = Len(chunkVideos)
    /\ Len(chunkVideos) >= 4

\* the page the outstanding request of the current window is about
CurrentPage == PageAt(provider, CurWindow, nextPageToken)

\* one record for each detail record, in the order the provider returned them
RecordsOf(details, w) ==
    [i \in 1..Len(details) |-> [id |-> details[i], viewCount |-> w]]

C22_WitnessIdsFiltered ==
    /\ inFlight # None
    /\ Get(inFlight).kind = "details"
    /\ Len(Get(inFlight).ids) = 2
    /\ Len(CurrentPage.items) = 3

(***************************************************************************)
(* C23: within one searchVideos call at most one provider request is in    *)
(* flight at any time: a window is started only after the previous window  *)
(* has returned, a page is requested only after the previous page's search *)
(* and detail requests have completed, and no request is in flight while   *)
(* the call is waiting out a quota suspension.                             *)
(***************************************************************************)
C23_StrictlySequential ==
    /\ [](/\ inFlight # None <=> pc \in {"search", "details"}
          /\ pc = "wait" => inFlight = None
          /\ inFlight # None =>
                /\ Get(inFlight).window = CurWindow
                /\ Get(inFlight).token = nextPageToken
                /\ Get(inFlight).kind = pc)
    /\ [][ /\ windows' # windows =>
                 /\ inFlight = None /\ inFlight' = None
                 /\ pc = "loop"
                 /\ Len(windows') = Len(windows) + 1
                 /\ Len(allVideos) = resultsFetched
           /\ (inFlight' # None /\ Get(inFlight').kind = "search"
                 /\ inFlight' # inFlight) =>
                 /\ inFlight = None
                 /\ pc \in {"page", "wait"}
           /\ (inFlight' # None /\ Get(inFlight').kind = "details"
                 /\ inFlight' # inFlight) =>
                 /\ pc = "search"
                 /\ Get(inFlight).window = Get(inFlight').window
                 /\ Get(inFlight).token = Get(inFlight').token
         ]_vars

\* a suspension being waited out in the second window, after a page of it
\* was fetched, with nothing in flight
C23_Witness ==
    /\ pc = "wait"
    /\ inFlight = None
    /\ Len(windows) = 2
    /\ chunkVideos # << >>

(***************************************************************************)
(* C28: whenever searchVideos returns, the quota flag of the service is    *)
(* false: every suspension tripped during a search has been waited out     *)
(* inside that search, so a later call on the same instance never starts   *)
(* with a pending suspension left over from an earlier search.             *)
(***************************************************************************)
C28_FlagClearAtReturn ==
    pc = "done" => ~quotaExceeded

\* the flag is left set only by a trip on the first page of the last
\* window requested; every other trip is waited out inside the search
C28_ClearedWhenWaited ==
    (pc = "done" /\ quotaExceeded) =>
        /\ lastError # None
        /\ IsQuotaError(Get(lastError))
        /\ Get(lastReq).token = None
        /\ Get(lastReq).window = Len(windows)

\* the distinct ids of the records of the first n windows' pages
RECURSIVE IdsInWindows(_, _)
IdsInWindows(script, n) ==
    IF n = 0 THEN {}
    ELSE IdsInWindows(script, n - 1) \cup
         UNION {{WindowPages(script, n)[p].details[i] :
                    i \in DOMAIN WindowPages(script, n)[p].details} :
                p \in DOMAIN WindowPages(script, n)}

\* the distinct video ids the provider holds in the windows of the range
ProviderIds == IdsInWindows(provider, NumWindows(startDateTime, endDateTime))

\* a search with maxResults = N >= 1 returned and no request failed
CappedSearchDone ==
    /\ pc = "done"
    /\ options.maxResults # None
    /\ Get(options.maxResults) >= 1
    /\ NoRequestFailed

(***************************************************************************)
(* C29: with maxResults = N >= 1 and a provider that never errors and      *)
(* whose windows together hold at least N distinct video ids, searchVideos *)
(* returns exactly N records: duplicate ids among the fetched items never  *)
(* make the search stop with fewer than N records while unrequested pages  *)
(* or windows remain.                                                      *)
(***************************************************************************)
C29_ExactlyNRecords ==
    (CappedSearchDone /\ Cardinality(ProviderIds) >= Get(options.maxResults)) =>
        Len(result) = Get(options.maxResults)

(***************************************************************************)
(* C29 amended: the cap counts the records fetched before dedup.  With     *)
(* maxResults = N >= 1 and no failed request the search stops as soon as a *)
(* window returns with N or more records accumulated, duplicates included, *)
(* and returns min(N, number of distinct ids accumulated) records: exactly *)
(* N when the accumulation holds N distinct ids, fewer when duplicates     *)
(* filled the cap, even if unrequested pages or windows hold further ids.  *)
(***************************************************************************)
C29_CapCountsDuplicates ==
    CappedSearchDone =>
        LET N == Get(options.maxResults)
            distinct == Cardinality(IdsOf(allVideos))
        IN /\ Len(result) = IF distinct < N THEN distinct ELSE N
           /\ stoppedByCap <=> Len(allVideos) >= N
           /\ stoppedByCap =>
                 Len(allVideos) - Len(OfWindow(allVideos, Len(windows))) < N
           /\ ~stoppedByCap =>
                 /\ Len(windows) = NumWindows(startDateTime, endDateTime)
                 /\ allVideos = ConcatWindows(provider, Len(windows), TRUE)
           /\ (Len(result) < N /\ stoppedByCap) => Len(allVideos) > distinct

\* a search that the cap ended with fewer than N records, duplicates having
\* filled the cap, while the provider holds N distinct ids
C29_Witness ==
    /\ CappedSearchDone
    /\ stoppedByCap
    /\ Len(result) < Get(options.maxResults)
    /\ Cardinality(ProviderIds) >= Get(options.maxResults)

\* the step in which search.list answers with a page that holds no items, or
\* no item with a video id
StopPageReceived ==
    /\ pc = "search"
    /\ lastError' = None
    /\ \/ CurrentPage.items = << >>
       \/ \A i \in DOMAIN CurrentPage.items : CurrentPage.items[i] = NoId

\* what every such step does to the window: nothing more is requested for
\* it and the items collected so far are returned to searchVideos
StopPageEndsWindow ==
    /\ inFlight' = None
    /\ nRequests' = nRequests
    /\ pc' \notin {"page", "wait", "search", "details"}
    /\ chunkVideos' = chunkVideos
    /\ allVideos' = allVideos \o chunkVideos
    /\ resultsFetched' = resultsFetched + Len(chunkVideos)

(***************************************************************************)
(* C30: a search page that holds no items, or no item with a video id,     *)
(* ends the pagination of its window immediately, even when the response   *)
(* carries a continuation token: no detail request and no further page     *)
(* request is issued for that window, the items collected so far for the   *)
(* window are returned, and the search goes on with the next window.       *)
(***************************************************************************)
C30_StopPageThenNextWindow ==
    /\ [][ StopPageReceived =>
              /\ StopPageEndsWindow
              /\ pc' = "loop"
              /\ currentStartDate' = chunkEndDate
         ]_vars
    /\ [](inFlight # None => Get(inFlight).window = Len(windows))

(***************************************************************************)
(* C30 amended: such a page ends the pagination of its window immediately, *)
(* with or without a continuation token, no detail request and no further  *)
(* page request is issued for that window and the items collected so far   *)
(* are returned; the search then goes on with the next window of the       *)
(* range, except when maxResults is 0: then the cap test after the window  *)
(* holds at once and the search ends.                                      *)
(***************************************************************************)
C30_StopPageEndsPagination ==
    /\ [][ StopPageReceived =>
              /\ StopPageEndsWindow
              /\ IF options.maxResults = Some(0)
                 THEN pc' = "finish" /\ currentStartDate' = currentStartDate
                 ELSE pc' = "loop" /\ currentStartDate' = chunkEndDate
         ]_vars
    /\ [](inFlight # None => Get(inFlight).window = Len(windows))

\* the second window is being requested after the first window was ended by
\* an empty second page that had a third page behind it
C30_Witness ==
    /\ inFlight # None
    /\ Get(inFlight).window = 2
    /\ lastReq = Some([kind |-> "search", window |-> 1, token |-> Some(2),
                       ids |-> << >>])
    /\ lastError = None
    /\ Len(WindowPages(provider, 1)) = 3
    /\ allVideos # << >>

(***************************************************************************)
(* Transcript retrieval: lib/youtube.ts getTranscript over                 *)
(* TranscriptService.getTranscriptWithTimestamps and fetchTranscript.  A   *)
(* text is a sequence of one-character strings.                            *)
(***************************************************************************)
SegmentTexts == { <<"a">>, <<"b">>, << >> }

\* what YoutubeTranscript.fetchTranscript may do for one language: return a
\* list of segments, possibly empty, or throw
LibraryAnswers ==
    { [ok |-> FALSE, segments |-> << >>] } \cup
    { [ok |-> TRUE, segments |-> segs] :
        segs \in UNION {[1..k -> SegmentTexts] : k \in 0..MaxSegments} }

TranscriptSources == [en : LibraryAnswers, auto : LibraryAnswers]

\* segments.map(item => item.text).join(" ")
RECURSIVE JoinText(_)
JoinText(segments) ==
    IF segments = << >> THEN << >>
    ELSE IF Len(segments) = 1 THEN segments[1]
    ELSE segments[1] \o <<" ">> \o JoinText(Tail(segments))

\* getTranscript, given what getTranscriptWithTimestamps resolved to
TranscriptOf(segments, language) ==
    IF Len(segments) > 0
    THEN Some([transcript |-> JoinText(segments), language |-> language])
    ELSE None

\* the try block of fetchTranscript is left by the throw of the English
\* request: its catch wraps and rethrows, and no second request is made
EnglishFailedEndsCall(answer) == ~answer.ok

notTranscriptVars ==
    << searchVars, lookupVars, calls, batchVars, analysisVars, frontVars >>

\* entry: the English transcript is requested first
CallGetTranscript ==
    /\ trPc = "idle"
    /\ \E source \in TranscriptSources : trSource' = source
    /\ trAttempts' = <<"en">>
    /\ trPc' = "en"
    /\ UNCHANGED << trResult, notTranscriptVars >>

\* the English request returns or throws
EnglishResponse ==
    /\ trPc = "en"
    /\ IF EnglishFailedEndsCall(trSource.en)
       THEN \* getTranscriptWithTimestamps catches: {segments: [], "none"}
            /\ trResult' = TranscriptOf(<< >>, "none")
            /\ trPc' = "done"
            /\ UNCHANGED trAttempts
       ELSE IF trSource.en.ok /\ Len(trSource.en.segments) > 0
       THEN /\ trResult' = TranscriptOf(trSource.en.segments, "en")
            /\ trPc' = "done"
            /\ UNCHANGED trAttempts
       ELSE \* fallback to auto-detection
            /\ trAttempts' = Append(trAttempts, "auto")
            /\ trPc' = "auto"
            /\ UNCHANGED trResult
    /\ UNCHANGED << trSource, notTranscriptVars >>

\* the auto-detected request returns or throws
AutoResponse ==
    /\ trPc = "auto"
    /\ trResult' = IF trSource.auto.ok /\ Len(trSource.auto.segments) > 0
                   THEN TranscriptOf(trSource.auto.segments, "auto")
                   ELSE TranscriptOf(<< >>, "none")
    /\ trPc' = "done"
    /\ UNCHANGED << trSource, trAttempts, notTranscriptVars >>

NextTranscript ==
    \/ CallGetTranscript
    \/ EnglishResponse
    \/ AutoResponse

SpecTranscript == InitLookup /\ [][NextTranscript]_vars

\* a library answer that yields no transcript: it threw or has no segments
YieldsNothing(answer) == ~answer.ok \/ answer.segments = << >>

(***************************************************************************)
(* C24: transcript retrieval tries the preferred language ("en") first;    *)
(* whenever that attempt yields no transcript, whether by returning no     *)
(* segments or by failing, the auto-detected language is tried next, and   *)
(* absent is reported only when both attempts yield nothing.  So if an     *)
(* auto-detected transcript exists, getTranscript returns it even when the *)
(* English attempt fails.                                                  *)
(***************************************************************************)
C24_FallbackToAuto ==
    trPc = "done" =>
        /\ trAttempts[1] = "en"
        /\ YieldsNothing(trSource.en) => trAttempts = <<"en", "auto">>
        /\ trResult = None <=>
              (YieldsNothing(trSource.en) /\ YieldsNothing(trSource.auto))
        /\ (YieldsNothing(trSource.en) /\ ~YieldsNothing(trSource.auto)) =>
              trResult = Some([transcript |-> JoinText(trSource.auto.segments),
                               language |-> "auto"])

\* the fallback as it is: taken when the English request returns no segments,
\* never when it throws
C24_FallbackOnEmptyOnly ==
    trPc = "done" =>
        /\ trAttempts[1] = "en"
        /\ ~YieldsNothing(trSource.en) =>
              /\ trAttempts = <<"en">>
              /\ trResult = Some([transcript |-> JoinText(trSource.en.segments),
                                  language |-> "en"])
        /\ (trSource.en.ok /\ trSource.en.segments = << >>) =>
              /\ trAttempts = <<"en", "auto">>
              /\ trResult = None <=> YieldsNothing(trSource.auto)
              /\ ~YieldsNothing(trSource.auto) => Get(trResult).language = "auto"
        /\ ~trSource.en.ok =>
              /\ trAttempts = <<"en">>
              /\ trResult = None

\* the auto-detected transcript returned after an empty English answer
C24_WitnessFallback ==
    /\ trPc = "done"
    /\ trAttempts = <<"en", "auto">>
    /\ trResult # None
    /\ Get(trResult).language = "auto"
    /\ Len(Get(trResult).transcript) = 3

(***************************************************************************)
(* The batch loops: bin/transcript-fetcher.ts over getTranscript and       *)
(* bin/llm-analyzer.ts over analyzeTranscript.  Each video of the input    *)
(* carries what its item call does: it resolves to a value, resolves to    *)
(* null, or throws.                                                        *)
(***************************************************************************)
BatchKinds == {"transcript", "analysis"}
ItemOutcomes == {"value", "null", "throws"}
BatchItems == [videoId : {"A", "B"}, outcome : ItemOutcomes]
BatchInputs == UNION {[1..k -> BatchItems] : k \in 1..MaxBatch}

\* the value the item call of the loop resolves to for a video
ItemValue(kind, item) ==
    IF kind = "transcript"
    THEN [transcript |-> <<item.videoId>>, language |-> "en"]
    ELSE [video_type |-> <<item.videoId>>]

\* the record the loop pushes for a video whose call resolved to a value
OutputRecord(kind, item) ==
    [videoId |-> item.videoId, data |-> ItemValue(kind, item)]

\* variant: the loop is left when an item call throws
AfterItemAbortOnThrow(item, pos, input) ==
    IF item.outcome = "throws" THEN Len(input) ELSE pos + 1

\* try { ... } catch { log }: the loop goes on to the next video whatever
\* the item call did
AfterItem(item, pos, input) == pos + 1

\* one iteration of the for loop on outputData
IterateOn(kind, item, out) ==
    IF item.outcome = "value" THEN Append(out, OutputRecord(kind, item)) ELSE out

\* the whole loop as a function of its input
RECURSIVE RunBatch(_, _)
RunBatch(kind, input) ==
    IF input = << >> THEN << >>
    ELSE IterateOn(kind, input[Len(input)],
                   RunBatch(kind, SubSeq(input, 1, Len(input) - 1)))

notBatchVars ==
    << searchVars, lookupVars, calls, transcriptVars, analysisVars, frontVars >>

\* the loop is entered with the videos read from the input
StartBatch ==
    /\ batchKind = "none"
    /\ \E kind \in BatchKinds : batchKind' = kind
    /\ \E input \in BatchInputs : batchInput' = input
    /\ batchPos' = 0
    /\ outputData' = << >>
    /\ UNCHANGED notBatchVars

\* one iteration: the item call is awaited inside try/catch
BatchIteration ==
    /\ batchKind # "none"
    /\ batchPos < Len(batchInput)
    /\ outputData' = IterateOn(batchKind, batchInput[batchPos + 1], outputData)
    /\ batchPos' = AfterItem(batchInput[batchPos + 1], batchPos, batchInput)
    /\ UNCHANGED << batchKind, batchInput, notBatchVars >>

NextBatch ==
    \/ StartBatch
    \/ BatchIteration

SpecBatch == InitLookup /\ [][NextBatch]_vars

BatchDone == batchKind # "none" /\ batchPos >= Len(batchInput)

\* the videos of the input whose item call resolved to a value
Succeeded(input) == SelectSeq(input, LAMBDA item : item.outcome = "value")

\* the input without its k-th video
Without(input, k) ==
    SubSeq(input, 1, k - 1) \o SubSeq(input, k + 1, Len(input))

(***************************************************************************)
(* C25: in the transcript batch and in the analysis batch a failure or an  *)
(* absent result for one video never aborts the batch: every later video   *)
(* is still processed, the output holds exactly the videos that succeeded, *)
(* in input order, and the outputs of the other videos are the same as if  *)
(* the failing video had not been in the input.                            *)
(***************************************************************************)
C25_BatchIsolation ==
    /\ batchKind # "none" =>
          /\ batchPos \in 0..Len(batchInput)
          /\ outputData = [i \in 1..Len(Succeeded(SubSeq(batchInput, 1, batchPos)))
                             |-> OutputRecord(batchKind,
                                     Succeeded(SubSeq(batchInput, 1, batchPos))[i])]
    /\ BatchDone =>
          /\ batchPos = Len(batchInput)
          /\ Len(outputData) = Len(Succeeded(batchInput))
          /\ \A i \in DOMAIN outputData :
                outputData[i].videoId = Succeeded(batchInput)[i].videoId
          /\ \A k \in DOMAIN batchInput :
                batchInput[k].outcome # "value" =>
                    RunBatch(batchKind, Without(batchInput, k)) = outputData

\* a finished batch whose first video threw, whose second resolved to null
\* and whose third succeeded
C25_Witness ==
    /\ BatchDone
    /\ Len(batchInput) = 3
    /\ batchInput[1].outcome = "throws"
    /\ batchInput[2].outcome = "null"
    /\ batchInput[3].outcome = "value"
    /\ Len(outputData) = 1

(***************************************************************************)
(* lib/ollama.ts analyzeTranscript.  A JSON value is named by its kind;    *)
(* "undefined" is what reading a key the JSON omits gives.                 *)
(***************************************************************************)
AnalysisFields ==
    {"video_type", "name", "age", "sex", "location", "symptoms",
     "medicalHistoryOfPatient", "familyMedicalHistory",
     "challengesFacedDuringDiagnosis", "key_opinion"}
PresentKinds == {"null", "emptyString", "string", "array", "object"}
JsonKinds == PresentKinds \cup {"undefined"}

\* JavaScript truthiness of a JSON value
Truthy(v) == v \in {"string", "array", "object"}

\* a || b
OrElse(a, b) == IF Truthy(a) THEN a ELSE b

\* Array.isArray(v) ? v : null
ArrayOrNull(v) == IF v = "array" THEN v ELSE "null"

\* typeof v === "object" ? v : null   (typeof null and typeof [] are "object")
ObjectOrNull(v) == IF v \in {"object", "array", "null"} THEN v ELSE "null"

\* the record analyzeTranscript builds from the parsed JSON
AnalysisRecord(parsedData) ==
    [f \in AnalysisFields |->
        CASE f = "video_type" -> OrElse(parsedData[f], "Informational")
          [] f \in {"symptoms", "challengesFacedDuringDiagnosis"} ->
                ArrayOrNull(parsedData[f])
          [] f \in {"medicalHistoryOfPatient", "familyMedicalHistory"} ->
                ObjectOrNull(parsedData[f])
          [] OTHER -> OrElse(parsedData[f], "null")]

\* what the model answers: nothing, text without a JSON object, text whose
\* braces do not parse, or a JSON object that omits the fields of `omitted`
\* and gives every other field a value of kind `kind`
ParsedData(omitted, kind) ==
    [f \in AnalysisFields |-> IF f \in omitted THEN "undefined" ELSE kind]
Contents ==
    {[shape |-> s, parsedData |-> ParsedData(AnalysisFields, "null")] :
        s \in {"empty", "noJson", "badJson"}}
    \cup {[shape |-> "json", parsedData |-> ParsedData(omitted, kind)] :
            omitted \in SUBSET AnalysisFields, kind \in PresentKinds}

\* the value analyzeTranscript returns for a model answer; None is null
AnalysisOf(c) ==
    IF c.shape = "json" THEN Some(AnalysisRecord(c.parsedData)) ELSE None

notAnalysisVars ==
    << searchVars, lookupVars, calls, transcriptVars, batchVars, frontVars >>

\* analyzeTranscript is called; an empty transcript returns null at once
CallAnalyzeTranscript ==
    /\ anPc \in {"idle", "done"}
    /\ content' = None
    /\ analysisResult' = None
    /\ \E emptyTranscript \in BOOLEAN :
          anPc' = IF emptyTranscript THEN "done" ELSE "generate"
    /\ UNCHANGED notAnalysisVars

\* myLama.generate resolves
GenerateResponse ==
    /\ anPc = "generate"
    /\ \E c \in Contents :
          /\ content' = Some(c)
          /\ analysisResult' = AnalysisOf(c)
    /\ anPc' = "done"
    /\ UNCHANGED notAnalysisVars

\* myLama.generate rejects: the catch block returns null
GenerateError ==
    /\ anPc = "generate"
    /\ content' = None
    /\ analysisResult' = None
    /\ anPc' = "done"
    /\ UNCHANGED notAnalysisVars

NextAnalysis ==
    \/ CallAnalyzeTranscript
    \/ GenerateResponse
    \/ GenerateError

SpecAnalysis == InitLookup /\ [][NextAnalysis]_vars

\* analyzeTranscript has returned for a model answer that was a JSON object
ParsedAnswer ==
    /\ anPc = "done"
    /\ content # None
    /\ Get(content).shape = "json"

(***************************************************************************)
(* C26: for every field of the analysis record, when the model's JSON      *)
(* omits the field, analyzeTranscript returns a record in which that field *)
(* is absent (null), never an error and never a substituted value.         *)
(***************************************************************************)
C26_OmittedFieldAbsent ==
    ParsedAnswer =>
        /\ analysisResult # None
        /\ \A f \in AnalysisFields :
              Get(content).parsedData[f] = "undefined" =>
                  Get(analysisResult)[f] = "null"

\* C26 for the nine fields other than video_type: an omitted field is null
\* in the record, and a record is returned
C26_OmittedFieldAbsentButType ==
    ParsedAnswer =>
        /\ analysisResult # None
        /\ \A f \in AnalysisFields \ {"video_type"} :
              Get(content).parsedData[f] = "undefined" =>
                  Get(analysisResult)[f] = "null"

\* a record was returned for a JSON object without video_type, and its
\* video_type is the substituted "Informational"
C26_WitnessSubstituted ==
    /\ ParsedAnswer
    /\ Get(content).parsedData["video_type"] = "undefined"
    /\ analysisResult # None
    /\ Get(analysisResult)["video_type"] = "Informational"
    /\ Get(analysisResult)["name"] = "string"

(***************************************************************************)
(* Two searchVideos calls on the one YouTubeService of lib/youtube.ts.     *)
(* JavaScript runs a call without interruption from one await to the next, *)
(* so a step below is everything a call does between two awaits: the       *)
(* awaits are search.list, videos.list and the setTimeout of the wait      *)
(* (the await on fetchVideosByDateRange resumes in the same task).  Each   *)
(* call has its own locals; quotaExceeded is the instance's.               *)
(***************************************************************************)
MaxSharedWindows == 2
MaxSharedPages == 2
Callers == {1, 2}

\* a call's locals: pc, the window, the page it is on (page 1 is a null
\* nextPageToken), whether the page just searched has a successor, and
\* whether the call got a quotaExceeded response it has not waited out
IdleCall ==
    [pc |-> "idle", window |-> 1, page |-> 1, more |-> FALSE, owes |-> FALSE]

\* variant: the catch block leaves the flag as it is
TripFlagNever(flag) == flag

\* this.quotaExceeded = true
TripFlag(flag) == TRUE

\* top of the do body: wait if the flag is set, else request the page
EnterBody(r, flag) ==
    IF flag THEN [r EXCEPT !.pc = "wait"] ELSE [r EXCEPT !.pc = "search"]

\* fetchVideosByDateRange returns; searchVideos goes to the next window and
\* calls it again, or returns
EndWindow(r, flag) ==
    IF r.window < MaxSharedWindows
    THEN EnterBody([r EXCEPT !.window = @ + 1, !.page = 1, !.more = FALSE], flag)
    ELSE [r EXCEPT !.pc = "done", !.more = FALSE]

\* while (nextPageToken !== null)
AfterContinue(r, flag) ==
    IF r.page > 1 THEN EnterBody(r, flag) ELSE EndWindow(r, flag)

notSharedVars ==
    << options, provider, pc, searchLocals, chunkLocals, inFlight, result,
       history, clockVars, lookupVars, transcriptVars, batchVars, analysisVars,
       frontVars >>

\* the module is loaded: two callers hold the one instance
LoadModule ==
    /\ calls = << >>
    /\ calls' = [c \in Callers |-> IdleCall]
    /\ UNCHANGED << quotaExceeded, notSharedVars >>

\* a caller calls searchVideos and runs to its first await
SharedCall(c) ==
    /\ calls # << >>
    /\ calls[c].pc = "idle"
    /\ calls' = [calls EXCEPT ![c] = EnterBody(@, quotaExceeded)]
    /\ UNCHANGED << quotaExceeded, notSharedVars >>

\* search.list resolves: an empty page ends the window, any other page is
\* followed by the videos.list request
SharedSearchResponse(c) ==
    /\ calls # << >>
    /\ calls[c].pc = "search"
    /\ \E empty \in BOOLEAN, more \in BOOLEAN :
          calls' = [calls EXCEPT ![c] =
                       IF empty THEN EndWindow(@, quotaExceeded)
                       ELSE [@ EXCEPT !.pc = "details",
                                      !.more = more /\ calls[c].page < MaxSharedPages]]
    /\ UNCHANGED << quotaExceeded, notSharedVars >>

\* videos.list resolves: the token of the page is taken over
SharedDetailsResponse(c) ==
    /\ calls # << >>
    /\ calls[c].pc = "details"
    /\ calls' = [calls EXCEPT ![c] =
                    IF @.more
                    THEN EnterBody([@ EXCEPT !.page = @ + 1, !.more = FALSE],
                                   quotaExceeded)
                    ELSE EndWindow(@, quotaExceeded)]
    /\ UNCHANGED << quotaExceeded, notSharedVars >>

\* either request is rejected with 403 quotaExceeded: the flag is set and
\* `continue` goes to the loop condition
SharedQuotaError(c) ==
    /\ calls # << >>
    /\ calls[c].pc \in {"search", "details"}
    /\ quotaExceeded' = TripFlag(quotaExceeded)
    /\ calls' = [calls EXCEPT ![c] =
                    AfterContinue([@ EXCEPT !.owes = TRUE, !.more = FALSE],
                                  quotaExceeded')]
    /\ UNCHANGED notSharedVars

\* either request is rejected with anything else: break
SharedOtherError(c) ==
    /\ calls # << >>
    /\ calls[c].pc \in {"search", "details"}
    /\ calls' = [calls EXCEPT ![c] = EndWindow(@, quotaExceeded)]
    /\ UNCHANGED << quotaExceeded, notSharedVars >>

\* the caller's own timer fires: the flag is cleared and the page requested
SharedWaitDone(c) ==
    /\ calls # << >>
    /\ calls[c].pc = "wait"
    /\ quotaExceeded' = FALSE
    /\ calls' = [calls EXCEPT ![c] = [@ EXCEPT !.pc = "search", !.owes = FALSE]]
    /\ UNCHANGED notSharedVars

NextShared ==
    \/ LoadModule
    \/ \E c \in Callers : SharedCall(c)
    \/ \E c \in Callers : SharedSearchResponse(c)
    \/ \E c \in Callers : SharedDetailsResponse(c)
    \/ \E c \in Callers : SharedQuotaError(c)
    \/ \E c \in Callers : SharedOtherError(c)
    \/ \E c \in Callers : SharedWaitDone(c)

SpecShared == InitLookup /\ [][NextShared]_vars

(***************************************************************************)
(* C27: when two searchVideos calls run interleaved on one shared          *)
(* YouTubeService, every quotaExceeded response a call receives is         *)
(* followed by a completed wait in that same call before the call issues   *)
(* its next request: the other call clearing the flag at the end of its    *)
(* own wait never cancels the wait this call owes.                         *)
(***************************************************************************)
C27_OwnWaitBeforeNextRequest ==
    /\ [](calls # << >> =>
            \A c \in Callers :
               /\ calls[c].pc \in {"search", "details"} => ~calls[c].owes
               /\ calls[c].owes => calls[c].pc \in {"wait", "done"})
    /\ [][calls # << >> =>
            \A c \in Callers :
               (calls[c].owes /\ ~calls'[c].owes) =>
                   (calls[c].pc = "wait" /\ calls'[c].pc = "search")]_vars

\* caller 1 is still in the wait it owes while the flag has been cleared by
\* caller 2, which has a request outstanding after a wait of its own
C27_Witness ==
    /\ calls # << >>
    /\ calls[1].pc = "wait"
    /\ calls[1].owes
    /\ ~quotaExceeded
    /\ calls[2].pc \in {"search", "details"}
    /\ calls[2].window = 2

(***************************************************************************)
(* Termination.  The provider's script is finite, the provider answers     *)
(* with errors at most MaxQuotaErrors + MaxOtherErrors times, and a step   *)
(* that can be taken (an answer arriving, a wait ending, the task going    *)
(* on) is eventually taken.                                                *)
(***************************************************************************)
\* calls over three windows with every kind of maxResults, and a call that
\* leaves the range to yearsBack
LiveOptions ==
    [startDate : {Some(0)}, endDate : {Some(NowDay)}, yearsBack : {None},
     maxResults : OptMaxResults]
    \cup
    [startDate : {None}, endDate : {None}, yearsBack : {Some(1)},
     maxResults : {None}]

InitLive ==
    /\ Init
    /\ options \in LiveOptions

SpecLive == InitLive /\ [][Next]_vars /\ WF_vars(Next)

\* the number of date chunks the resolved range is cut into
RECURSIVE ChunkCount(_, _)
ChunkCount(from, to) ==
    IF ~InRange(from, to) THEN 0 ELSE 1 + ChunkCount(ChunkEnd(from, to), to)

(***************************************************************************)
(* C31: searchVideos terminates: with finitely many pages per window,      *)
(* finitely many quotaExceeded answers and waits that end, the window loop *)
(* and every pagination loop finish and searchVideos returns; each window  *)
(* iteration moves the window start strictly forward, so the number of     *)
(* windows is finite.                                                      *)
(***************************************************************************)
C31_Terminates ==
    /\ <>(pc = "done")
    /\ [](pc = "done" => [](pc = "done" /\ inFlight = None))
    /\ [](pc # "idle" => Len(windows) <= ChunkCount(startDateTime, endDateTime))
    /\ [][ windows' # windows =>
              /\ chunkEndDate' > currentStartDate
              /\ Len(windows) >= 1 =>
                    /\ currentStartDate > windows[Len(windows)].start
                    /\ currentStartDate = windows[Len(windows)].end
         ]_vars

\* searchVideos has returned after more than one window, a wait and a
\* window with more than one page
C31_Witness ==
    /\ pc = "done"
    /\ Len(windows) >= 2
    /\ nQuota >= 1
    /\ clock > NowDay
    /\ \E i \in DOMAIN result : result[i] # result[1]

\* the step is the arrival of an error answer of the given kind
ErrorAnswered(kind) ==
    /\ inFlight # None
    /\ inFlight' = None
    /\ lastError' # None
    /\ IF kind = "quota" THEN nQuota' = nQuota + 1 ELSE nOther' = nOther + 1

(***************************************************************************)
(* C32: error responses change only what they are meant to change: a       *)
(* quotaExceeded response sets the quota flag and leaves the window's      *)
(* accumulated records, its fetched count and its current page token       *)
(* unchanged; a non-quota error leaves the quota flag and all records      *)
(* accumulated so far (this window and earlier windows) unchanged.         *)
(***************************************************************************)
C32_ErrorFrame ==
    [][ /\ ErrorAnswered("quota") =>
              /\ quotaExceeded'
              /\ chunkVideos' = chunkVideos
              /\ chunkFetched' = chunkFetched
              /\ nextPageToken' = nextPageToken
              /\ allVideos' \in {allVideos, allVideos \o chunkVideos}
              /\ nOther' = nOther
        /\ ErrorAnswered("other") =>
              /\ quotaExceeded' = quotaExceeded
              /\ chunkVideos' = chunkVideos
              /\ allVideos' = allVideos \o chunkVideos
              /\ nQuota' = nQuota
      ]_vars

\* a quotaExceeded answer has just arrived for a later page of a window that
\* already holds records: flag set, records and token as before
C32_Witness ==
    /\ pc = "page"
    /\ quotaExceeded
    /\ lastError # None /\ IsQuotaError(Get(lastError))
    /\ chunkVideos # << >>
    /\ chunkFetched = Len(chunkVideos)
    /\ nextPageToken # None

\* a non-quota error has just ended the second window with the records of
\* both windows kept and the flag clear
C32_WitnessOther ==
    /\ lastError # None /\ ~IsQuotaError(Get(lastError))
    /\ inFlight = None
    /\ ~quotaExceeded
    /\ Len(windows) = 2
    /\ chunkVideos # << >>
    /\ Len(allVideos) > Len(chunkVideos)

(***************************************************************************)
(* run-video-pipeline.sh.  A stage is one `docker compose run ... || {      *)
(* echo ...; exit 1; }` line of run_pipeline; its exit status is the       *)
(* environment's choice.                                                   *)
(***************************************************************************)
Stages ==
    << "fetch metadata", "store metadata", "fetch transcripts",
       "store transcripts", "analyze", "store analysis", "store search config" >>
ExitStatuses == {0, 1, 2}

\* the command lines the script is run with, and what the SearchConfig
\* lookup of check_search_term finds
ScriptArgs ==
    [term : {"", "flu"}, startDate : BOOLEAN, endDate : BOOLEAN,
     unknown : BOOLEAN, known : BOOLEAN]

\* the log entry of a stage that has been started
Started(k) == [stage |-> Stages[k], status |-> None]

\* variant: a failed stage is followed by the next stage
AfterStageIgnoringStatus(k, status, log) ==
    IF k < Len(Stages)
    THEN /\ shPc' = "stage"
         /\ stageLog' = Append(log, Started(k + 1))
         /\ exitCode' = None
    ELSE /\ shPc' = "finished"
         /\ stageLog' = log
         /\ exitCode' = Some(0)

\* cmd || { echo ...; exit 1; }  followed by the next line of run_pipeline
AfterStage(k, status, log) ==
    IF status # 0
    THEN /\ shPc' = "exited"
         /\ stageLog' = log
         /\ exitCode' = Some(1)
    ELSE IF k < Len(Stages)
         THEN /\ shPc' = "stage"
              /\ stageLog' = Append(log, Started(k + 1))
              /\ exitCode' = None
         ELSE /\ shPc' = "finished"
              /\ stageLog' = log
              /\ exitCode' = Some(0)

notShellVars ==
    << searchVars, lookupVars, calls, transcriptVars, batchVars, analysisVars,
       apiVars >>

\* the script is started: the argument checks of lines 5-24
RunScript ==
    /\ shPc = "idle"
    /\ \E args \in ScriptArgs :
          /\ shArgs' = args
          /\ IF args.term = "" \/ args.unknown
             THEN shPc' = "exited" /\ exitCode' = Some(1)
             ELSE shPc' = "postgres" /\ exitCode' = None
    /\ stageLog' = << >>
    /\ UNCHANGED notShellVars

\* docker compose up -d postgres and the files written before the stages,
\* under set -e
PostgresUp ==
    /\ shPc = "postgres"
    /\ \E status \in ExitStatuses :
          IF status # 0
          THEN shPc' = "exited" /\ exitCode' = Some(status)
          ELSE shPc' = "main" /\ exitCode' = None
    /\ UNCHANGED << shArgs, stageLog, notShellVars >>

\* main logic: the pipeline is skipped for a known term without a date
\* range, else run_pipeline starts its first stage
MainLogic ==
    /\ shPc = "main"
    /\ IF shArgs.known /\ ~shArgs.startDate /\ ~shArgs.endDate
       THEN shPc' = "finished" /\ exitCode' = Some(0) /\ stageLog' = stageLog
       ELSE /\ shPc' = "stage"
            /\ exitCode' = None
            /\ stageLog' = <<Started(1)>>
    /\ UNCHANGED << shArgs, notShellVars >>

\* the running stage exits
StageExits ==
    /\ shPc = "stage"
    /\ \E status \in ExitStatuses :
          AfterStage(Len(stageLog), status,
                     [stageLog EXCEPT ![Len(stageLog)].status = Some(status)])
    /\ UNCHANGED << shArgs, notShellVars >>

NextScript ==
    \/ RunScript
    \/ PostgresUp
    \/ MainLogic
    \/ StageExits

SpecScript == InitLookup /\ [][NextScript]_vars

\* the stages logged are the first n stages, in the script's order
InStageOrder(log) ==
    /\ Len(log) <= Len(Stages)
    /\ \A i \in DOMAIN log : log[i].stage = Stages[i]

\* every stage before the i-th exited with status 0
EarlierSucceeded(log, i) ==
    \A j \in 1..(i - 1) : log[j].status = Some(0)

(***************************************************************************)
(* C33: run-video-pipeline.sh runs its stages strictly in the order fetch  *)
(* metadata, store metadata, fetch transcripts, store transcripts,         *)
(* analyze, store analysis, store search config; a stage starts only after *)
(* every earlier stage exited successfully, the first failing stage ends   *)
(* the script with a non-zero exit, and so the search-config record of a   *)
(* term is stored only after all earlier stages of that run succeeded.     *)
(***************************************************************************)
C33_StagesInOrder ==
    /\ InStageOrder(stageLog)
    /\ \A i \in DOMAIN stageLog : EarlierSucceeded(stageLog, i)
    /\ shPc = "stage" <=>
          (stageLog # << >> /\ stageLog[Len(stageLog)].status = None)
    /\ \A i \in DOMAIN stageLog :
          (stageLog[i].status # None /\ stageLog[i].status # Some(0)) =>
              /\ i = Len(stageLog)
              /\ shPc = "exited"
              /\ exitCode # None /\ Get(exitCode) # 0
    /\ (exitCode = Some(0) /\ stageLog # << >>) =>
          /\ Len(stageLog) = Len(Stages)
          /\ \A i \in DOMAIN stageLog : stageLog[i].status = Some(0)
    /\ \A i \in DOMAIN stageLog :
          stageLog[i].stage = "store search config" =>
              /\ i = Len(Stages)
              /\ EarlierSucceeded(stageLog, i)

\* the search config is being stored after six successful stages
C33_Witness ==
    /\ shPc = "stage"
    /\ Len(stageLog) = Len(Stages)
    /\ stageLog[Len(Stages)].stage = "store search config"
    /\ \A i \in 1..(Len(Stages) - 1) : stageLog[i].status = Some(0)

\* the third stage failed and ended the script with exit status 1
C33_WitnessFailed ==
    /\ shPc = "exited"
    /\ Len(stageLog) = 3
    /\ stageLog[3].status = Some(2)
    /\ exitCode = Some(1)

(***************************************************************************)
(* pages/api/search.ts handler.  A JSON value of the body is a record of   *)
(* its type and, for a string, its characters; req.body is what the body   *)
(* parser hands over: an object, the text of a non-JSON body, or null for  *)
(* the JSON body `null`.                                                    *)
(***************************************************************************)
Undefined == [type |-> "undefined", s |-> << >>]
NumberValue == [type |-> "number", s |-> << >>]
Str(chars) == [type |-> "string", s |-> chars]

DiseaseValues == {Undefined, NumberValue, Str(<< >>), Str(<<"f">>)}
KeywordValues == {Undefined, Str(<< >>), Str(<<" ">>), Str(<<"k">>)}
Bodies ==
    {[kind |-> "object", disease |-> d, keywords |-> k] :
        d \in DiseaseValues, k \in KeywordValues}
    \cup {[kind |-> b, disease |-> Undefined, keywords |-> Undefined] :
            b \in {"null", "text"}}
Methods == {"GET", "POST"}
SearchNames == {<<"f">>, <<"f", " ", "k">>}

\* JavaScript truthiness of a JSON value
TruthyValue(v) ==
    \/ v.type = "number"
    \/ v.type = "string" /\ v.s # << >>

\* String.prototype.trim
RECURSIVE TrimLeft(_)
TrimLeft(chars) ==
    IF chars # << >> /\ Head(chars) = " " THEN TrimLeft(Tail(chars)) ELSE chars
RECURSIVE TrimRight(_)
TrimRight(chars) ==
    IF chars # << >> /\ chars[Len(chars)] = " "
    THEN TrimRight(SubSeq(chars, 1, Len(chars) - 1)) ELSE chars
Trim(chars) == TrimRight(TrimLeft(chars))

\* keywords ? `${disease} ${keywords}`.trim() : disease
SearchNameOf(body) ==
    IF TruthyValue(body.keywords)
    THEN Trim(body.disease.s \o <<" ">> \o body.keywords.s)
    ELSE body.disease.s

\* the awaits of the handler, in order; all but the first are store queries
Awaits ==
    << "pool", "config", "videos", "transcripts", "analysis",
       "patientStories", "kolInterviews" >>
CountQueries == {Awaits[i] : i \in 3..Len(Awaits)}
AwaitAfter(name) ==
    Awaits[(CHOOSE i \in DOMAIN Awaits : Awaits[i] = name) + 1]

Respond(status) == apiResponses' = Append(apiResponses, status)

notApiVars ==
    << searchVars, lookupVars, calls, transcriptVars, batchVars, analysisVars,
       shellVars >>

\* a request arrives; the handler runs to its first await or answers
HandleRequest ==
    /\ apiPc \in {"idle", "done"}
    /\ \E method \in Methods, body \in Bodies, names \in SUBSET SearchNames :
          /\ apiReq' = [method |-> method, body |-> body]
          /\ apiStore' = names
          /\ apiQueries' = IF method = "POST" /\ body.kind # "null"
                              /\ TruthyValue(body.disease)
                              /\ body.disease.type = "string"
                           THEN <<"pool">> ELSE << >>
          /\ apiResponses' =
                IF method # "POST" THEN <<405>>
                ELSE IF body.kind = "null" THEN <<500>>
                ELSE IF ~TruthyValue(body.disease) \/ body.disease.type # "string"
                     THEN <<400>>
                     ELSE << >>
          /\ apiPc' = IF apiResponses' = << >> THEN "pool" ELSE "done"
    /\ UNCHANGED notApiVars

\* getPool or the pending query resolves
AwaitResolves ==
    /\ apiPc \notin {"idle", "done"}
    /\ IF apiPc = "config" /\ SearchNameOf(apiReq.body) \notin apiStore
       THEN /\ Respond(404)
            /\ apiPc' = "done"
            /\ UNCHANGED apiQueries
       ELSE IF apiPc = Awaits[Len(Awaits)]
            THEN /\ Respond(200)
                 /\ apiPc' = "done"
                 /\ UNCHANGED apiQueries
            ELSE /\ apiPc' = AwaitAfter(apiPc)
                 /\ apiQueries' = Append(apiQueries, AwaitAfter(apiPc))
                 /\ UNCHANGED apiResponses
    /\ UNCHANGED << apiReq, apiStore, notApiVars >>

\* getPool or the pending query rejects: the catch block answers 500
AwaitRejects ==
    /\ apiPc \notin {"idle", "done"}
    /\ Respond(500)
    /\ apiPc' = "done"
    /\ apiQueries' = Append(apiQueries, "rejected")
    /\ UNCHANGED << apiReq, apiStore, notApiVars >>

NextApi ==
    \/ HandleRequest
    \/ AwaitResolves
    \/ AwaitRejects

SpecApi == InitLookup /\ [][NextApi]_vars

\* the claim's conditions on a request
DiseaseMissingOrNotString(body) ==
    \/ body.kind # "object"
    \/ body.disease.type # "string"
    \/ body.disease.s = << >>
NoConfigRow(body, names) == SearchNameOf(body) \notin names

\* getPool or the last query the handler ran was rejected
QueryFailed ==
    /\ apiQueries # << >>
    /\ apiQueries[Len(apiQueries)] = "rejected"

\* the answer the claim prescribes for a request, given which queries ran
\* and whether the last of them failed
Prescribed(req, names, queries, failed) ==
    IF req.method # "POST" THEN 405
    ELSE IF DiseaseMissingOrNotString(req.body) THEN 400
    ELSE IF queries = <<"pool", "config">> /\ NoConfigRow(req.body, names) THEN 404
    ELSE IF failed THEN 500
    ELSE 200

(***************************************************************************)
(* C34: the /api/search handler answers every request with exactly one     *)
(* response, chosen in this order: 405 when the method is not POST; 400    *)
(* when disease is missing or not a string; 404 when the search name       *)
(* (disease, plus keywords when given) has no SearchConfig row; 500 when   *)
(* any store query fails; otherwise 200 with the counts.  No count query   *)
(* is run for a request answered 405, 400 or 404.                          *)
(***************************************************************************)
C34_OneResponseInOrder ==
    /\ Len(apiResponses) <= 1
    /\ apiPc = "done" =>
          /\ Len(apiResponses) = 1
          /\ apiResponses[1] =
                Prescribed(apiReq, apiStore, apiQueries, QueryFailed)
          /\ apiResponses[1] \in {405, 400, 404} =>
                \A i \in DOMAIN apiQueries : apiQueries[i] \notin CountQueries

\* C34 for every body but the JSON body null
C34_OneResponseInOrderNonNull ==
    (apiReq # << >> /\ apiReq.body.kind # "null") => C34_OneResponseInOrder

\* a POST with the JSON body null was answered 500 without any store query
C34_WitnessNullBody ==
    /\ apiPc = "done"
    /\ apiReq.method = "POST"
    /\ apiReq.body.kind = "null"
    /\ apiResponses = <<500>>
    /\ apiQueries = << >>

====
